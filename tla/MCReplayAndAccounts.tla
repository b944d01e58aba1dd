------------------------ MODULE MCReplayAndAccounts ------------------------
(* What a simulation reads and what it leaves: MarketDataFeeds and Accounts *)
(* in one instance for TLC.  They share nothing: a behaviour runs one of    *)
(* them and leaves the other as it was made.                                *)
EXTENDS MarketDataFeeds, Accounts

CONSTANTS A, B

VARIABLE part

(* The feeds *)

FourLists == { << >>, <<"binary">>, <<"csv", "binary">>,
               <<"vector", "csv", "binary", "synthetic">> }
TwoTicks == <<7, 7>>
BadInTheMiddle == <<TRUE, FALSE, TRUE>>

(* The accounts: the bounds are those of the instance, not of the module *)

TwoSymbols == {A, B}
TwoHorizons == <<1, 2>>

\* Fills that open, add, reduce, close and flip, of two symbols.
Holding ==
    [symbols |-> {A, B}, quantities |-> {1, 2}, prices |-> {1, 2}, waits |-> {0},
     fees |-> {0}, amounts |-> {-3}, fills |-> 3, mids |-> 1, marks |-> 0]
\* A value that rises and falls between marks and days, with and without costs.
Marking ==
    [symbols |-> {A}, quantities |-> {2}, prices |-> {1, 3}, waits |-> {0},
     fees |-> {0, 1}, amounts |-> {}, fills |-> 2, mids |-> 2, marks |-> 3]
\* Mids that arrive between, at and beyond the horizons of several fills, and
\* prices of zero.
Resolving ==
    [symbols |-> {A}, quantities |-> {1}, prices |-> {0, 1, 2}, waits |-> {1, 2},
     fees |-> {0}, amounts |-> {}, fills |-> 2, mids |-> 3, marks |-> 0]

ThreeScenarios == {Holding, Marking, Resolving}

(* One of the two runs *)

BothInit ==
    /\ ReplayInit /\ Init
    /\ \/ part = "replay" /\ scenario = Holding
       \/ part = "accounts" /\ feeds = << >>

BothNext ==
    \/ part = "replay" /\ ReplayNext /\ UNCHANGED <<vars, part>>
    \/ part = "accounts" /\ Next /\ UNCHANGED <<replayVars, part>>

\* The fairness of FairReplaySpec; the accounts need none.
BothSpec ==
    /\ BothInit /\ [][BothNext]_<<replayVars, vars, part>>
    /\ WF_replayVars(Round) /\ WF_replayVars(NoFeeds)
=============================================================================
