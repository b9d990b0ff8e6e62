-------------------------- MODULE MCGrievanceCourt --------------------------
(***************************************************************************)
(* Model checking of GrievanceCourt, with history variables for the        *)
(* properties that relate a step to the times and standing before it, and  *)
(* the sums over accounts.                                                 *)
(***************************************************************************)
EXTENDS GrievanceCourt, Functions

VARIABLES
    requestedAt,  \* history: time of the last requestWithdrawal of each address
    resolvedAt,   \* history: time each case was decided, 0 before
    onceMaker     \* history: registered at some time since its last withdrawStake

history == <<requestedAt, resolvedAt, onceMaker>>
mcVars == <<vars, history>>

Left(m) == InExitQueue(m) /\ ~InExitQueue(m)' /\ UNCHANGED grievances

MCInit ==
    /\ Init
    /\ requestedAt = [m \in Address |-> 0]
    /\ resolvedAt = [c \in Case |-> 0]
    /\ onceMaker = [m \in Address |-> FALSE]

Chronicle ==
    /\ requestedAt' = [m \in Address |->
          IF ~InExitQueue(m) /\ InExitQueue(m)' THEN now ELSE requestedAt[m]]
    /\ resolvedAt' = [c \in Case |->
          IF ~Resolved(c) /\ Resolved(c)' THEN now ELSE resolvedAt[c]]
    /\ onceMaker' = [m \in Address |-> Registered(m)' \/ (onceMaker[m] /\ ~Left(m))]

MCNext == Next /\ Chronicle
MCSpec == MCInit /\ [][MCNext]_mcVars

\* The registry holds exactly the recorded stakes: no deposit, withdrawal,
\* exit, bounty or burn loses or creates a token.
RegistrySolvent ==
    balance[Registry] = SumFunction(stake)

\* What the court owes to one side or the other of each case.
heldBonds == [c \in Case |-> IF Live(c) THEN grievances[c].bondAmount ELSE 0]

\* The court holds exactly the bonds of the undecided cases (and what its bare
\* receive() was sent): every bond is paid out once, to one side, at the verdict.
CourtHoldsLiveBonds ==
    balance[Court] = donated + SumFunction(heldBonds)

\* A maker leaves through withdrawStake only a full cooldown after it asked to,
\* with no undecided case, and a full slashing window after every verdict.
ExitServesItsTime ==
    [][\A m \in Address : Left(m) =>
          /\ now >= requestedAt[m] + CooldownPeriod
          /\ \A c \in Case : c.accused = m =>
                /\ ~Live(c)
                /\ Resolved(c) => now >= resolvedAt[c] + SlashingWindow]_mcVars

-----------------------------------------------------------------------------
(* What the documents say and the contracts do not do.                     *)

\* PRODUCT_SPEC 5.1.1: once registered as a maker, stake leaves only through
\* requestWithdrawal, cooldown, withdrawStake (or by a slash).
PartialWithdrawDisabled ==
    [][\A m \in Address :
          onceMaker[m] /\ stake'[m] < stake[m] /\ UNCHANGED grievances => InExitQueue(m)]_mcVars
=============================================================================
