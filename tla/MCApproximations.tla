-------------------------- MODULE MCApproximations ---------------------------
(* Single fits of one round over every curve of six samples up to 2, none of  *)
(* no error, of several rounds over a few curves in both paths and engines,   *)
(* and a continuation;                                                        *)
(* sign composites with tails of up to two refinements of order 2 and 3 that  *)
(* measure little, enough only with a tail, or enough.                        *)
EXTENDS Approximations

Of(n, rounds, general, precise, subs, target) ==
    [n |-> n, maxIter |-> rounds, general |-> general, precision |-> precise,
     subdomains |-> subs, target |-> target]

Every == {<<v>> : v \in {w \in [1..Grid -> {-2, -1, 1, 2}] : w[1] > 0}}
Few == {<<<<2, -1, 1, -2, 1, -1>>>>, <<<<1, -1, 1, -1, 1, -1>>>>, <<<<0, 0, 1, 0, 0, 0>>>>, <<<<1, 2, 2, 1, -1, 0>>>>}
Wave == <<2, -1, 1, -1, 1, 2>>
Ripple == <<1, -1, 1, -1, 1, -1>>
Two == {<<a, b>> : a \in {Wave, Ripple}, b \in {<<-1, 1, -1, 1, -1, 1>>}}
Three == {<<Wave, Ripple, a>> : a \in {Wave, Ripple}} \cup {<<Ripple, Ripple, Ripple>>}
Four == {<<Wave, <<-2, 1, -2, 2, 1, 2>>, Ripple, Wave>>}
TallOnes == {<<<<1, -4, 2, -1, 4, -1>>>>, <<<<3, -1, 2, -4, 1, -2>>>>, <<<<1, -2, 4, -1, 1, -3>>>>}

PolishCurves == {<<<<1, 1, 1, -1, -1, 0>>>>, <<<<0, 0, 1, 0, 0, 0>>>>}

MCCurves == [tall |-> TallOnes, every |-> Every, few |-> Few, polish |-> PolishCurves, two |-> Two, three |-> Three, four |-> Four]
Parted == <<"few", "two", "three", "four">>
\* Numbers of points and rounds, paths, engines and subdomains.
MCFits ==
    {Of(n, 1, g, FALSE, 1, "every") : n \in 2..4, g \in BOOLEAN}
    \cup {Of(n, 1, TRUE, FALSE, 1, "tall") : n \in 2..5}
    \cup {Of(n, 3, TRUE, TRUE, 1, "few") : n \in {3, 5}}
    \cup {Of(3, 6, FALSE, FALSE, 1, "few"), Of(3, 2, FALSE, TRUE, 1, "polish")}
    \cup {Of(n, 1, FALSE, FALSE, k, Parted[k]) : n \in 2..9, k \in 1..2}
    \cup {Of(n, 1, TRUE, FALSE, k, Parted[k]) : n \in 2..9, k \in 2..4}

\* The cosine of K = 2: an interval at each of -1, 0 and 1.
MCCosine == Of(0, 2, TRUE, FALSE, 3, "three")

MCNoise == [float64 |-> 2, mpmath |-> 1]
\* A stray on either side of a subdomain.
MCStrays == {[u |-> 1, r |-> 3, mu |-> 1], [u |-> 7 * Scale, r |-> -3, mu |-> -1]}

MCOrders == <<2, 3>>
=============================================================================
