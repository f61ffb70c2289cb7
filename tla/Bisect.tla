------------------------------- MODULE Bisect -------------------------------
(***************************************************************************)
(* BisectService: the search for the first bad patch of a writer, between  *)
(* a good one and a bad one of its chain.  Each turn materializes the graph *)
(* at the tick of the middle candidate and runs the caller's test on it.   *)
(* The writer commits meanwhile.                                           *)
(***************************************************************************)
EXTENDS Integers, Sequences

CONSTANTS MaxChain,   \* bound on the length of the chain
          MaxGap      \* bound on the distance of two lamports

VARIABLES
    ticks,     \* the lamports of the writer's patches
    verdicts,  \* what the test says of the state at each patch: TRUE is good
    bisect     \* the search: [phase, good, bad, first, lo, hi, steps]

bisectVars == <<ticks, verdicts, bisect>>

noBisect == [phase |-> "idle", good |-> 0, bad |-> 0, first |-> 0, lo |-> 0, hi |-> 0, steps |-> 0]

BisectInit == ticks = << >> /\ verdicts = << >> /\ bisect = noBisect

extendChain ==
    /\ Len(ticks) < MaxChain
    /\ \E gap \in 1..MaxGap, v \in BOOLEAN :
         /\ ticks' = Append(ticks, gap + (IF ticks = << >> THEN 0 ELSE ticks[Len(ticks)]))
         /\ verdicts' = Append(verdicts, v)
    /\ UNCHANGED bisect

\* the patches of the writer in a state at a ceiling
chainAt(c) == {i \in 1..Len(ticks) : ticks[i] <= c}

testFn(c) == verdicts[CHOOSE i \in chainAt(c) : \A j \in chainAt(c) : j <= i]

\* resolveCandidates: the patches after good, up to bad; positions that are
\* not in the chain, or in the wrong order, are a range error
resolveCandidates(good, bad) ==
    IF {good, bad} \subseteq 1..Len(ticks) /\ good < bad THEN (good + 1)..bad ELSE {}

\* run: the caller vouches for good and for bad
run ==
    /\ bisect.phase = "idle"
    /\ \E good, bad \in 1..MaxChain :
         /\ good \in 1..Len(ticks) => verdicts[good]
         /\ bad \in 1..Len(ticks) => ~verdicts[bad]
         /\ bisect' = IF resolveCandidates(good, bad) = {} THEN [noBisect EXCEPT !.phase = "range-error"]
                      ELSE [phase |-> "search", good |-> good, bad |-> bad, first |-> good + 1,
                            lo |-> 0, hi |-> bad - good - 1, steps |-> 0]
    /\ UNCHANGED <<ticks, verdicts>>

\* a mutant: the middle is dropped whatever the test says
halveTooFar(s, mid, isGood) == IF isGood THEN [s EXCEPT !.lo = mid + 1] ELSE [s EXCEPT !.hi = mid - 1]

halve(s, mid, isGood) == IF isGood THEN [s EXCEPT !.lo = mid + 1] ELSE [s EXCEPT !.hi = mid]

\* one turn: materialize({ceiling}), then the test
_binarySearch ==
    /\ bisect.phase = "search" /\ bisect.lo < bisect.hi
    /\ LET mid == (bisect.lo + bisect.hi) \div 2
       IN  bisect' = [halve(bisect, mid, testFn(ticks[bisect.first + mid])) EXCEPT !.steps = @ + 1]
    /\ UNCHANGED <<ticks, verdicts>>

foundResult ==
    /\ bisect.phase = "search" /\ bisect.lo >= bisect.hi /\ bisect' = [bisect EXCEPT !.phase = "found"]
    /\ UNCHANGED <<ticks, verdicts>>

BisectNext == extendChain \/ run \/ _binarySearch \/ foundResult

----------------------------------------------------------------------------

\* The search ends at a bad patch whose predecessor is good, also where the
\* test does not change only once and while the chain grows, after at most
\* log2 of the candidates turns, rounded up (BisectService.run)
BisectFindsBoundary ==
    /\ bisect.phase = "found" =>
         ~verdicts[bisect.first + bisect.lo] /\ verdicts[bisect.first + bisect.lo - 1]
    /\ 2 ^ bisect.steps < 2 * (bisect.bad - bisect.good) \/ bisect.steps = 0
=============================================================================
