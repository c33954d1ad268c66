---------------------------- MODULE ShapeTracing -----------------------------
(* What shape tracing promises (build params/shape_tracing.py and the         *)
(* infer_output_shape and forward_clear of the operators in shape/,           *)
(* arithmetic/, slots/ and ml/): the shape and the packed axis n_axis it      *)
(* infers for a value are those of the tensor the operators compute.          *)
(*                                                                            *)
(* A value is its traced record and the clear tensor, of which an entry is    *)
(* only the ciphertext slot it lies in: entries that are summed or multiplied *)
(* must share it, since only some operators move data between slots.  Axes    *)
(* are counted from 0, and from the end when negative, as in the code; an     *)
(* operation the trace refuses (it raises) is not taken.                      *)
EXTENDS Integers, FiniteSets, Sequences, SequencesExt

CONSTANTS
    Inputs, Others, \* tensor_shapes of the value's input and of the other input
    InternalNs,     \* internal_n, or Absent
    Sizes,          \* of axes
    MaxRank, MaxEntries,    \* bounds of the values that are traced
    Weights,        \* shapes of constants and weights
    KeptAxes,       \* dims reduced with keep_dim
    ConvAxes,       \* packed axes of what is convolved
    MulAxes, NewAxes,   \* of HomMatMul
    Keys,           \* indexers x[key]: sequences of "full", "dots" and "at"
    Absent

\* Axes are not empty; of none a tensor may be a scalar.
ASSUME ShapeAssumption ==
    /\ Inputs \cup Others \cup Weights \subseteq Seq(Nat \ {0}) /\ Sizes \subseteq Nat \ {0}
    /\ InternalNs \subseteq (Nat \ {0}) \cup {Absent} /\ Absent \notin Int
    /\ KeptAxes \cup MulAxes \subseteq Int /\ NewAxes \cup ConvAxes \subseteq Int \cup {Absent}
    /\ Keys \subseteq Seq({"full", "dots", "at"}) /\ MaxRank \in Nat

VARIABLES
    value,          \* the value the pipeline has come to
    param           \* another input

shapeVars == <<value, param>>

Mixed == -1         \* an entry computed from several slots

-----------------------------------------------------------------------------
(* Shapes and axes *)

At(shape, axis) == shape[axis + 1]
Before(shape, axis) == SubSeq(shape, 1, axis)
After(shape, axis) == SubSeq(shape, axis + 2, Len(shape))
Without(shape, axis) == Before(shape, axis) \o After(shape, axis)
Product(shape) ==
    LET product[n \in 0..Len(shape)] == IF n = 0 THEN 1 ELSE product[n - 1] * shape[n]
    IN  product[Len(shape)]
AxesOf(shape) == -Len(shape)..(Len(shape) - 1)

ToPos(axis, shape) == IF axis >= 0 THEN axis ELSE axis + Len(shape)
ToNeg(axis, shape) == IF axis < 0 THEN axis ELSE axis - Len(shape)

\* make_copy and __post_init__ of HomValue.
Traced(shape, axis) == [shape |-> shape, axis |-> IF axis = Absent THEN Absent ELSE ToPos(axis, shape)]

Ones(n) == [i \in 1..n |-> 1]
Padded(shape, rank) == Ones(rank - Len(shape)) \o shape
Larger(m, n) == IF m < n THEN n ELSE m
Compatible(s, t) ==
    LET r == Larger(Len(s), Len(t))
    IN  \A i \in 1..r : LET m == Padded(s, r)[i] n == Padded(t, r)[i] IN m = n \/ m = 1 \/ n = 1
BroadcastShapes(s, t) ==
    LET r == Larger(Len(s), Len(t)) IN [i \in 1..r |-> Larger(Padded(s, r)[i], Padded(t, r)[i])]

\* The shapes the bounds admit.
Admitted == {s \in UNION {[1..r -> Sizes] : r \in 0..MaxRank} : Product(s) <= MaxEntries}

-----------------------------------------------------------------------------
(* What the trace infers *)

\* resolve_n_axis: the declared axis, or that with the least padding.
ResolveNAxis(shape, axis, internalN) ==
    IF axis # Absent THEN ToPos(axis, shape)
    ELSE IF internalN = Absent THEN Absent
    ELSE LET padding(a) == (internalN - At(shape, a)) % internalN
             axes == 0..(Len(shape) - 1)
         IN  CHOOSE a \in axes : \A b \in axes :
                padding(a) <= padding(b) /\ (b < a => padding(b) > padding(a))

\* infer_broadcast_output_shape with a constant, and of two values.
InferBroadcast(v, dims) ==
    Traced(BroadcastShapes(v.shape, dims), IF v.axis = Absent THEN Absent ELSE ToNeg(v.axis, v.shape))

\* (Slip: the axes are compared as counted from the front.)
SameSlotsFromFront(v, w) == v.axis # Absent => w.axis = v.axis /\ At(w.shape, w.axis) = At(v.shape, v.axis)
SameSlots(v, w) ==
    v.axis # Absent =>
        /\ w.axis # Absent /\ ToNeg(w.axis, w.shape) = ToNeg(v.axis, v.shape)
        /\ At(w.shape, w.axis) = At(v.shape, v.axis)

\* A slice shape[:axis] of Python.
Cut(axis, shape) == IF axis < 0 THEN Larger(0, axis + Len(shape)) ELSE IF axis > Len(shape) THEN Len(shape) ELSE axis

\* infer_insert_axis_output_shape
InferInsert(v, axis, size) ==
    Traced(InsertAt(v.shape, Cut(axis, v.shape) + 1, size),
           IF v.axis = Absent THEN Absent ELSE v.axis + (IF axis <= v.axis THEN 1 ELSE 0))

\* infer_remove_axis_output_shape, which raises for the packed axis.
Removable(v, axis) == ToPos(axis, v.shape) # v.axis
InferRemove(v, axis) ==
    LET a == ToPos(axis, v.shape)
    IN  Traced(Without(v.shape, a), IF v.axis = Absent THEN Absent ELSE v.axis - (IF a < v.axis THEN 1 ELSE 0))

\* infer_reduce_axis_output_shape
InferReduce(v, dim, keep) ==
    IF keep THEN InferInsert(InferRemove(v, dim), dim, 1) ELSE InferRemove(v, dim)

\* HomReshape: the axes that keep the packed axis' place in memory.
PackedPlaces(v, dims) ==
    {a \in 0..(Len(dims) - 1) :
        /\ At(dims, a) = At(v.shape, v.axis)
        /\ Product(Before(dims, a)) = Product(Before(v.shape, v.axis))
        /\ Product(After(dims, a)) = Product(After(v.shape, v.axis))}
LeastOf(S) == CHOOSE a \in S : \A b \in S : a <= b
InferReshape(v, dims) == Traced(dims, IF v.axis = Absent THEN Absent ELSE LeastOf(PackedPlaces(v, dims)))

\* range(*slice(...).indices(size)): the coordinates a slice takes, for a
\* positive step.
Taken(size, start, end, step) ==
    LET within(i) == IF i < 0 THEN Larger(0, i + size) ELSE IF i > size THEN size ELSE i
        stop == IF end = Absent THEN size ELSE within(end)
        count == IF stop <= within(start) THEN 0 ELSE (stop - within(start) + step - 1) \div step
    IN  [n \in 1..count |-> within(start) + (n - 1) * step]

\* _choose_matmul_new_n_axis: the axes that may be packed once mul_axis, the
\* packed axis, is summed away, counted from the end.
Surviving(v, dims, mul) ==
    LET out == BroadcastShapes(v.shape, dims)
    IN  {a \in -Len(out)..-1 : a # ToNeg(mul, out)}
InDims(v, dims, mul) ==
    LET out == BroadcastShapes(v.shape, dims)
    IN  {a \in Surviving(v, dims, mul) :
            /\ At(Padded(v.shape, Len(out)), ToPos(a, out)) = 1
            /\ At(Padded(dims, Len(out)), ToPos(a, out)) = At(out, ToPos(a, out))}
Candidates(v, dims, mul, new) ==
    LET out == BroadcastShapes(v.shape, dims)
        wide(axes) == {a \in axes : At(out, ToPos(a, out)) > 1}
        diags == wide(InDims(v, dims, mul))
        degenerate == InDims(v, dims, mul) \ diags
    IN  IF (new = Absent /\ diags # {}) \/ new \in diags THEN diags
        ELSE IF wide(Surviving(v, dims, mul)) = {} /\ degenerate # {} THEN degenerate
        ELSE Surviving(v, dims, mul)
\* The largest, the first of equals.
Largest(axes, out) ==
    CHOOSE a \in axes : \A b \in axes :
        /\ At(out, ToPos(b, out)) <= At(out, ToPos(a, out))
        /\ b < a => At(out, ToPos(b, out)) < At(out, ToPos(a, out))

\* The axis of the product that will be packed.
Normal(new, out) == IF new = Absent THEN Absent ELSE ToNeg(ToPos(new, out), out)
ChosenAxis(v, dims, mul, new) ==
    LET out == BroadcastShapes(v.shape, dims)
        packed == ToPos(ToNeg(v.axis, v.shape), out)
    IN  IF packed # ToPos(mul, out) THEN packed
        ELSE IF new # Absent THEN ToPos(Normal(new, out), out)
        ELSE ToPos(Largest(Candidates(v, dims, mul, Absent), out), out)
MatMulAllowed(v, dims, mul, new) ==
    LET out == BroadcastShapes(v.shape, dims)
    IN  ToPos(ToNeg(v.axis, v.shape), out) = ToPos(mul, out) =>
            LET candidates == Candidates(v, dims, mul, Normal(new, out))
            IN  candidates # {} /\ (new # Absent => Normal(new, out) \in candidates)

\* HomMatMul
InferMatMul(v, dims, mul, new) ==
    LET out == BroadcastShapes(v.shape, dims)
        chosen == ChosenAxis(v, dims, mul, new)
    IN  Traced(Without(out, ToPos(mul, out)), chosen - (IF ToPos(mul, out) < chosen THEN 1 ELSE 0))

-----------------------------------------------------------------------------
(* What the operators compute: clear tensors *)

\* Where the entries of a tensor are: a coordinate for every axis.
Indices(shape) ==
    LET upTo[n \in 0..Len(shape)] ==
            IF n = 0 THEN {<<>>} ELSE {Append(i, j) : i \in upTo[n - 1], j \in 0..(shape[n] - 1)}
    IN  upTo[Len(shape)]

\* The place of an entry in memory, row-major, and the entry at a place.
Position(shape, index) ==
    LET place[n \in 0..Len(shape)] == IF n = 0 THEN 0 ELSE place[n - 1] * shape[n] + index[n]
    IN  place[Len(shape)]
Index(shape, k) == [d \in DOMAIN shape |-> (k \div Product(After(shape, d - 1))) % shape[d]]

\* The tensor whose entry at an index is c's entry at from(index).
Gather(c, shape, From(_)) == [shape |-> shape, slot |-> [i \in Indices(shape) |-> c.slot[From(i)]]]

\* Data packed along an axis.
Packed(shape, axis) ==
    [shape |-> shape, slot |-> [i \in Indices(shape) |-> IF axis = Absent THEN 0 ELSE At(i, axis)]]

Reshaped(c, shape) == Gather(c, shape, LAMBDA i : Index(c.shape, Position(shape, i)))
Unsqueezed(c, axis, size) == Gather(c, InsertAt(c.shape, axis + 1, size), LAMBDA i : RemoveAt(i, axis + 1))
Selected(c, axis, j) == Gather(c, Without(c.shape, axis), LAMBDA i : InsertAt(i, axis + 1, j))
Sliced(c, axis, taken) ==
    Gather(c, [c.shape EXCEPT ![axis + 1] = Len(taken)], LAMBDA i : [i EXCEPT ![axis + 1] = taken[@ + 1]])

\* A packed axis of size 1 repeats in all slots: broadcasting spreads it.
Broadcast(v, c, shape) ==
    IF v.axis # Absent /\ At(c.shape, v.axis) = 1 THEN Packed(shape, ToPos(ToNeg(v.axis, c.shape), shape))
    ELSE Gather(c, shape, LAMBDA i : [j \in DOMAIN c.shape |->
                    IF c.shape[j] = 1 THEN 0 ELSE i[j + Len(shape) - Len(c.shape)]])

Combined(slots) == IF \E s \in slots : slots = {s} THEN CHOOSE s \in slots : TRUE ELSE Mixed
Elementwise(c, d) == [shape |-> c.shape, slot |-> [i \in Indices(c.shape) |-> Combined({c.slot[i], d.slot[i]})]]

Summed(c, axis, keep) ==
    LET shape == Without(c.shape, axis)
        sum == [shape |-> shape,
                slot |-> [i \in Indices(shape) |->
                    Combined({c.slot[InsertAt(i, axis + 1, j)] : j \in 0..(At(c.shape, axis) - 1)})]]
    IN  IF keep THEN Unsqueezed(sum, axis, 1) ELSE sum

Places(key, entry) == {i \in DOMAIN key : key[i] = entry}

\* The axis of an indexer as torch has it: counted from the end after "...".
IndexedAxis(key, rank) ==
    LET p == CHOOSE i \in Places(key, "at") : TRUE
    IN  IF \E i \in 1..p : key[i] = "dots" THEN rank - (Len(key) - p) - 1 ELSE p - 1

-----------------------------------------------------------------------------

Input(shape, axis, internalN) ==
    LET packed == ResolveNAxis(shape, axis, internalN)
    IN  [trace |-> Traced(shape, packed), clear |-> Packed(shape, packed)]

\* The least of no axes raises.
Declarable(shape, n) == AxesOf(shape) \cup {a \in {Absent} : n # Absent => shape # <<>>}

ShapeInit ==
    \E s \in Inputs, t \in Others, n \in InternalNs :
        \E a \in Declarable(s, n), b \in Declarable(t, n) :
            value = Input(s, a, n) /\ param = Input(t, b, n)

traced == value.trace
tensor == value.clear

Becomes(trace, clear) ==
    /\ trace.shape \in Admitted
    /\ value' = [trace |-> trace, clear |-> clear] /\ UNCHANGED param

\* HomReshape; the clear entries keep their place in memory.
Reshape(dims) ==
    /\ Product(dims) = Product(traced.shape)
    /\ traced.axis # Absent => PackedPlaces(traced, dims) # {}
    /\ Becomes(InferReshape(traced, dims), Reshaped(tensor, dims))

\* HomUnsqueeze
Unsqueeze(dim) ==
    /\ dim \in AxesOf(Append(traced.shape, 1))
    /\ LET axis == ToPos(dim, Append(traced.shape, 1))
       IN  Becomes(InferInsert(traced, axis, 1), Unsqueezed(tensor, axis, 1))

\* HomSqueeze
Squeeze(dim) ==
    /\ dim \in AxesOf(traced.shape) /\ At(traced.shape, ToPos(dim, traced.shape)) = 1 /\ Removable(traced, dim)
    /\ Becomes(InferRemove(traced, dim), Selected(tensor, ToPos(dim, tensor.shape), 0))

\* HomSlice with an int, and with a slice, along one axis.
Select(dim, torchAxis, start) ==
    LET axis == ToPos(dim, traced.shape)
        j == IF start >= 0 THEN start ELSE start + At(traced.shape, axis)
    IN  /\ axis # traced.axis /\ j \in 0..(At(traced.shape, axis) - 1)
        /\ Becomes(InferRemove(traced, axis), Selected(tensor, torchAxis, j))
Slice(dim, torchAxis, start, end, step) ==
    LET axis == ToPos(dim, traced.shape)
        taken == Taken(At(traced.shape, axis), start, end, step)
    IN  /\ axis # traced.axis /\ taken # <<>>
        /\ Becomes(Traced([traced.shape EXCEPT ![axis + 1] = Len(taken)], traced.axis), Sliced(tensor, torchAxis, taken))

\* expand_ellipsis and resolve_single_axis_index.
KeyAllowed(key, rank) ==
    /\ Cardinality(Places(key, "dots")) <= 1 /\ Cardinality(Places(key, "at")) = 1
    /\ Len(key) - Cardinality(Places(key, "dots")) <= rank
Full(n) == [i \in 1..n |-> "full"]
Expanded(key, rank) ==
    IF Places(key, "dots") = {} THEN key \o Full(rank - Len(key))
    ELSE LET d == CHOOSE i \in Places(key, "dots") : TRUE
         IN  SubSeq(key, 1, d - 1) \o Full(rank - (Len(key) - 1)) \o SubSeq(key, d + 1, Len(key))
ActiveAxis(key, rank) == (CHOOSE i \in Places(Expanded(key, rank), "at") : TRUE) - 1

\* x[key]
GetItem(key) ==
    /\ KeyAllowed(key, Len(traced.shape))
    /\ LET dim == ActiveAxis(key, Len(traced.shape))
           axis == IndexedAxis(key, Len(tensor.shape))
       IN  \/ \E start \in {-2, 0, 1} : Select(dim, axis, start)
           \/ \E start \in {-2, 0, 1}, end \in {Absent, -1, 2}, step \in {1, 2} : Slice(dim, axis, start, end, step)

\* HomAxisSum
AxisSum(dim, keep) ==
    /\ dim \in AxesOf(traced.shape) /\ Removable(traced, dim)
    /\ Becomes(InferReduce(traced, dim, keep), Summed(tensor, ToPos(dim, tensor.shape), keep))

\* HomConstAdd and HomConstMul
Const(dims) ==
    /\ Compatible(traced.shape, dims)
    /\ Becomes(InferBroadcast(traced, dims), Broadcast(traced, tensor, BroadcastShapes(tensor.shape, dims)))

\* HomAdd and HomMul of the value and the other input, in either order.
Aligned(first, second) == Compatible(first.trace.shape, second.trace.shape) /\ SameSlots(first.trace, second.trace)
OfBoth(first, second) ==
    LET out == BroadcastShapes(first.trace.shape, second.trace.shape)
        one == Broadcast(first.trace, first.clear, out)
        other == Broadcast(second.trace, second.clear, out)
    IN  [trace |-> InferBroadcast(first.trace, second.trace.shape),
         clear |-> IF first.trace.axis = Absent THEN one ELSE Elementwise(one, other)]

Add(first, second) ==
    Aligned(first, second) /\ Becomes(OfBoth(first, second).trace, OfBoth(first, second).clear)

\* HomMul, which may sum the product along an axis.
MulSum(first, second, dim, keep) ==
    /\ Aligned(first, second)
    /\ LET product == OfBoth(first, second)
       IN  /\ dim \in AxesOf(product.trace.shape) /\ Removable(product.trace, dim)
           /\ Becomes(InferReduce(product.trace, dim, keep),
                      Summed(product.clear, ToPos(dim, product.clear.shape), keep))

\* HomRotateSum: rotations stay within the slots; they are summed, or stacked.
RotateSum(rotations, sum) ==
    IF sum THEN Becomes(traced, tensor) ELSE Becomes(InferInsert(traced, 0, rotations), Unsqueezed(tensor, 0, rotations))

\* HomMatMul: when the packed axis is summed the result moves to the slots of
\* the chosen one.
Multipliable(dims, mul, new) ==
    /\ Compatible(traced.shape, dims) /\ mul \in AxesOf(BroadcastShapes(traced.shape, dims))
    /\ traced.axis # Absent => MatMulAllowed(traced, dims, mul, new)
Multiplied(dims, mul, new) ==
    LET out == BroadcastShapes(traced.shape, dims)
        axis == ToPos(mul, out)
        moved == IF traced.axis # Absent /\ ToPos(ToNeg(traced.axis, traced.shape), out) = axis
                 THEN Packed(out, ChosenAxis(traced, dims, mul, new)) ELSE Broadcast(traced, tensor, out)
    IN  [trace |-> IF traced.axis = Absent THEN InferRemove(InferBroadcast(traced, dims), mul)
                   ELSE InferMatMul(traced, dims, mul, new),
         clear |-> Summed(moved, axis, FALSE)]
MatMul(dims, mul, new) ==
    Multipliable(dims, mul, new) /\ Becomes(Multiplied(dims, mul, new).trace, Multiplied(dims, mul, new).clear)

\* HomLinear: HomMatMul and a bias of the weight's shape without its mul_axis.
Linear(dims, mul) ==
    /\ mul \in AxesOf(dims) /\ Multipliable(dims, mul, Absent)
    /\ LET bias == Without(dims, ToPos(mul, dims))
           product == Multiplied(dims, mul, Absent)
       IN  /\ Compatible(product.trace.shape, bias)
           /\ Becomes(InferBroadcast(product.trace, bias),
                      Broadcast(product.trace, product.clear, BroadcastShapes(product.clear.shape, bias)))

\* conv_output_hw, and HomConv on channels by tiles of height by width, the width being
\* the height's, with the padding that is the default.  The trace takes any n_axis and
\* makes it the last one.  Pixels that are packed move between the slots; otherwise an
\* entry adds up what lies in the slots of all channels.
OutputSize(size, kernel, stride, padding) == (size + 2 * padding - (kernel - 1) - 1) \div stride + 1
SamePadding(kernel) == (kernel - 1) \div 2
Convolved(channels, pixels) ==
    IF traced.axis = 1 THEN Packed(<<channels, pixels>>, 1)
    ELSE [shape |-> <<channels, pixels>>,
          slot |-> [i \in Indices(<<channels, pixels>>) |->
                       Combined({tensor.slot[<<c, i[2]>>] : c \in 0..(tensor.shape[1] - 1)})]]
Conv(channels, kernel, side) ==
    /\ Len(traced.shape) = 2 /\ traced.axis \in ConvAxes /\ traced.shape[2] % (side * side) = 0
    /\ LET out == OutputSize(side, kernel, 1, SamePadding(kernel))
           pixels == (tensor.shape[2] \div (side * side)) * out * out
       IN  Becomes(Traced(<<channels, traced.shape[2]>>, -1), Convolved(channels, pixels))

ShapeNext ==
    \/ \E dims \in Admitted : Reshape(dims)
    \/ \E dim \in -MaxRank..MaxRank : Unsqueeze(dim) \/ Squeeze(dim) \/ AxisSum(dim, FALSE)
    \/ \E dim \in KeptAxes : AxisSum(dim, TRUE)
    \/ \E key \in Keys : GetItem(key)
    \/ \E dims \in Weights : Const(dims)
    \/ Add(value, param) \/ Add(param, value)
    \/ \E dim \in -MaxRank..MaxRank : MulSum(value, param, dim, FALSE)
    \/ \E dim \in KeptAxes : MulSum(value, param, dim, TRUE)
    \/ \E sum \in BOOLEAN : RotateSum(2, sum)
    \/ \E dims \in Weights, mul \in MulAxes :
          \/ \E new \in NewAxes : MatMul(dims, mul, new)
          \/ Linear(dims, mul)
    \/ \E channels \in 1..2, kernel \in {1, 3}, side \in 1..2 : Conv(channels, kernel, side)

ShapeSpec == ShapeInit /\ [][ShapeNext]_shapeVars

-----------------------------------------------------------------------------
(* Properties *)

\* However operators are chained, the traced shape is the shape of the tensor
\* they compute and n_axis is the axis along which its entries lie in their
\* slots: no reshape, slice, sum or broadcast mixes slots, and no inserted or
\* removed axis loses track of the packed one (shape_tracing.py and
\* infer_output_shape of the operators).  Two cases the code does not refuse are
\* outside it: an axis counted from the end that is reduced and kept (KeptAxes), and
\* a convolution of a value that is not packed along its pixels (ConvAxes).
TraceIsTrue ==
    /\ traced.shape = tensor.shape
    /\ traced.axis # Absent => \A i \in DOMAIN tensor.slot : tensor.slot[i] = At(i, traced.axis)

\* "keep_dim: Whether to retain the reduced axis with size 1"
\* (operators/arithmetic/h_axis_sum.py:15): the shape traced is that of the sum.
ReducedAxisStays == traced.shape = tensor.shape

=============================================================================
