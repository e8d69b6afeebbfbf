--------------------------- MODULE OptimizeJourney ---------------------------
(***************************************************************************)
(* Calculator::optimizeJourney: the search for a superfluous part of a     *)
(* reconstructed journey and the four repairs (1 CSL: cut superfluous      *)
(* line, 2 BTS: boarded too soon, 3 GTF: gone too far, 4 CSS: cut          *)
(* superfluous segment).  A journey is a sequence of JourneySteps; the     *)
(* access and egress walks have no connections.  The loop itself, one      *)
(* iteration per step, is in module Calculator.                            *)
(***************************************************************************)
EXTENDS CalculatorData, FiniteSetsExt

\* the connections a step rides, in travel order of their positions
Segment(step) ==
    {c \in Conns : /\ tt.conn[c].trip = tt.conn[step.enter].trip
                   /\ step.enter <= c /\ c <= step.exit}

FirstNode(step) == tt.conn[step.enter].from

LastNode(step) == tt.conn[step.exit].to

\* inBetweenNodesByJourneyStepIdx: nodes passed, boarding and unboarding excluded
InBetween(step) ==
    IF hasConnections(step)
    THEN {tt.conn[c].from : c \in Segment(step) \ {step.enter}}
            \ {FirstNode(step), LastNode(step)}
    ELSE {}

\* the connections of a step that arrive at, or leave from, a node
ArrivalsAt(step, n) == {c \in Segment(step) : tt.conn[c].to = n}

DeparturesAt(step, n) == {c \in Segment(step) : tt.conn[c].from = n}

-----------------------------------------------------------------------------
(***************************************************************************)
(* The nodes at which the pair of steps (a, b), a before b, shows a case.  *)
(***************************************************************************)
CaseNodes(case, a, b) ==
    CASE case = 1 -> InBetween(a) \cap {LastNode(b)}
      [] case = 2 -> IF hasConnections(a) THEN InBetween(b) \cap {LastNode(a)} ELSE {}
      [] case = 3 -> InBetween(a) \cap {FirstNode(b)}
      [] case = 4 -> InBetween(a) \cap InBetween(b)

\* <<j, i, case>>: the pairs of positions the search looks at, with the case
\* found there
Found(journey, ignore) ==
    {f \in (DOMAIN journey) \X (DOMAIN journey) \X (1 .. 4) :
        /\ f[2] < f[1]
        /\ hasConnections(journey[f[1]])
        /\ CaseNodes(f[3], journey[f[2]], journey[f[1]]) \ ignore # {}}

\* the order of the search: later step, earlier step, case
Before(f, g) ==
    \/ f[1] < g[1]
    \/ f[1] = g[1] /\ f[2] < g[2]
    \/ f[1] = g[1] /\ f[2] = g[2] /\ f[3] <= g[3]

\* the one it finds, if any
FirstFound(journey, ignore) ==
    LET found == Found(journey, ignore)
    IN  {f \in found : \A g \in found : Before(f, g)}

\* optimizationNode: of several common nodes of CSS, the first one travelled
OptimizationNode(journey, ignore, f) ==
    LET nodes == CaseNodes(f[3], journey[f[2]], journey[f[1]]) \ ignore
        passed == {c \in Segment(journey[f[2]]) : tt.conn[c].from \in nodes}
    IN  IF f[3] = 4 THEN tt.conn[Min(passed)].from ELSE CHOOSE n \in nodes : TRUE

-----------------------------------------------------------------------------
(***************************************************************************)
(* A repair returns the new journey and the nodes newly ignored.           *)
(***************************************************************************)
Repaired(journey) == [journey |-> journey, ignored |-> {}]

\* faulty: the node is tried again
IgnoredForgotten(journey, n) == Repaired(journey)

Ignored(journey, n) == [journey |-> journey, ignored |-> {n}]

\* CSL: leave step i at n; of the steps after it up to j, erase j when it is
\* the next one, else those strictly between
CutSuperfluousLine(journey, i, j, n) ==
    LET c == Max(ArrivalsAt(journey[i], n))
        kept == [journey EXCEPT ![i].exit = c]
    IN  IF ~ tt.conn[c].canUnboard
        THEN Ignored(journey, n)
        ELSE Repaired(IF j = i + 1
                      THEN SubSeq(kept, 1, i) \o SubSeq(kept, j + 1, Len(kept))
                      ELSE SubSeq(kept, 1, i) \o SubSeq(kept, j, Len(kept)))

\* BTS: board step j at n
BoardedTooSoon(journey, i, j, n) ==
    LET c == Max(DeparturesAt(journey[j], n))
    IN  IF ~ tt.conn[c].canBoard
        THEN Ignored(journey, n)
        ELSE Repaired([journey EXCEPT ![j].enter = c, ![j].walk = 0])

\* faulty: changes the later step instead of the earlier one
GoneTooFarSwapped(journey, i, j, n) ==
    Repaired([journey EXCEPT ![j].enter = Max(ArrivalsAt(journey[i], n)), ![j].walk = 0])

\* GTF: leave step i at n
GoneTooFar(journey, i, j, n) ==
    LET c == Max(ArrivalsAt(journey[i], n))
    IN  IF ~ tt.conn[c].canUnboard
        THEN Ignored(journey, n)
        ELSE Repaired([journey EXCEPT ![i].exit = c, ![j].walk = 0])

\* CSS: leave step i at n and board step j at n; scanning backwards, each loop
\* stops at the first connection that does not allow it
CutSuperfluousSegment(journey, i, j, n) ==
    LET A == ArrivalsAt(journey[i], n)
        D == DeparturesAt(journey[j], n)
        exits == {c \in A : \A d \in A : d >= c => tt.conn[d].canUnboard}
        enters == {c \in D : \A d \in D : d >= c => tt.conn[d].canBoard}
    IN  [journey |-> IF exits = {} \/ enters = {} THEN journey
                     ELSE [journey EXCEPT ![i].exit = Min(exits),
                                          ![j].enter = Min(enters)],
         ignored |-> IF exits = {} \/ enters # D THEN {n} ELSE {}]

Repair(journey, ignore, f) ==
    LET n == OptimizationNode(journey, ignore, f)
    IN  CASE f[3] = 1 -> CutSuperfluousLine(journey, f[2], f[1], n)
          [] f[3] = 2 -> BoardedTooSoon(journey, f[2], f[1], n)
          [] f[3] = 3 -> GoneTooFar(journey, f[2], f[1], n)
          [] f[3] = 4 -> CutSuperfluousSegment(journey, f[2], f[1], n)
=============================================================================
