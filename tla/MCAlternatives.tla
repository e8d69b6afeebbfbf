--------------------------- MODULE MCAlternatives ---------------------------
(***************************************************************************)
(* Every choice of seven journeys over four lines: one rides a line twice, *)
(* one rides none, and many share lines, so that combinations repeat and   *)
(* lead back to lines found before; each calculation may return any of     *)
(* them that fits, or fail.  The alternatives are summarised at the end.   *)
(***************************************************************************)
EXTENDS RouteSummary

Ride(lines, dep, arr) == [lines |-> lines, dep |-> dep, arr |-> arr]

MCOffers ==
    SUBSET {Ride(<<1, 2>>, 600, 1800), Ride(<<1, 1>>, 700, 1750), Ride(<<2, 3>>, 600, 2000),
            Ride(<<2, 4>>, 500, 2050), Ride(<<3>>, 500, 2110), Ride(<<4>>, 900, 2200),
            Ride(<<>>, 0, 2400)}

Ask == [forward |-> TRUE, time |-> 0, maxTotal |-> 7200,
        maxAlternatives |-> 200, maxValid |-> 50]

MCRequests ==
    {Ask, [Ask EXCEPT !.forward = FALSE, !.time = 2400], [Ask EXCEPT !.maxTotal = 2120],
     [Ask EXCEPT !.maxAlternatives = 4], [Ask EXCEPT !.maxValid = 2]}
=============================================================================
