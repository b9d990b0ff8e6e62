---------------------------- MODULE StakeCustody ----------------------------
(***************************************************************************)
(* What the judicial layer promises, without clocks, money flows, counters *)
(* or flags: an address is a depositor, a maker or a maker on its way out; *)
(* stake can leave only while no accusation against its owner is pending;  *)
(* an accusation ends in exactly one verdict; silence never exonerates.    *)
(***************************************************************************)
EXTENDS Integers

CONSTANTS Owners, Cases, MinStake  \* a case is a record with a field accused

VARIABLES
    bonded,      \* stake held for each owner
    standing,    \* "depositor", "maker" or "leaving"
    pending,     \* accusations without an answer
    contested,   \* accusations the accused has answered
    upheld,      \* accusations decided against the accused
    dismissed    \* accusations decided for the accused

custodyVars == <<bonded, standing, pending, contested, upheld, dismissed>>
docket == <<pending, contested, upheld, dismissed>>

Undecided == pending \cup contested
Decided == upheld \cup dismissed
Clear(m) == \A c \in Undecided : c.accused # m

Init ==
    /\ bonded = [m \in Owners |-> 0]
    /\ standing = [m \in Owners |-> "depositor"]
    /\ pending = {} /\ contested = {} /\ upheld = {} /\ dismissed = {}

Add(m) ==
    /\ bonded'[m] >= bonded[m]
    /\ bonded' = [bonded EXCEPT ![m] = bonded'[m]]
    /\ UNCHANGED <<standing, docket>>

\* A depositor with enough stake becomes a maker; a maker may step down.
Enlist(m) ==
    /\ Clear(m) /\ standing[m] # "leaving" /\ bonded[m] >= MinStake
    /\ \E s \in {"depositor", "maker"} : standing' = [standing EXCEPT ![m] = s]
    /\ UNCHANGED <<bonded, docket>>

Take(m) ==
    /\ Clear(m) /\ standing[m] = "depositor"
    /\ \E b \in 0..bonded[m] : bonded' = [bonded EXCEPT ![m] = b]
    /\ UNCHANGED <<standing, docket>>

Leave(m) ==
    /\ Clear(m) /\ standing[m] = "maker"
    /\ standing' = [standing EXCEPT ![m] = "leaving"]
    /\ UNCHANGED <<bonded, docket>>

Depart(m) ==
    /\ Clear(m) /\ standing[m] = "leaving"
    /\ bonded' = [bonded EXCEPT ![m] = 0]
    /\ standing' = [standing EXCEPT ![m] = "depositor"]
    /\ UNCHANGED docket

Accuse(c) ==
    /\ c \notin Undecided \cup Decided
    /\ pending' = pending \cup {c}
    /\ UNCHANGED <<bonded, standing, contested, upheld, dismissed>>

Answer(c) ==
    /\ c \in pending
    /\ pending' = pending \ {c}
    /\ contested' = contested \cup {c}
    /\ UNCHANGED <<bonded, standing, upheld, dismissed>>

\* Stake is cut; a maker is struck off exactly when the cut leaves it short.
Uphold(c) ==
    LET m == c.accused
    IN /\ c \in Undecided
       /\ pending' = pending \ {c}
       /\ contested' = contested \ {c}
       /\ upheld' = upheld \cup {c}
       /\ \E b \in 0..bonded[m] :
            /\ bonded' = [bonded EXCEPT ![m] = b]
            /\ standing' = [standing EXCEPT ![m] = IF b < MinStake THEN "depositor" ELSE @]
       /\ UNCHANGED dismissed

Dismiss(c) ==
    /\ c \in contested
    /\ contested' = contested \ {c}
    /\ dismissed' = dismissed \cup {c}
    /\ UNCHANGED <<bonded, standing, pending, upheld>>

Next ==
    \/ \E m \in Owners : Add(m) \/ Enlist(m) \/ Take(m) \/ Leave(m) \/ Depart(m)
    \/ \E c \in Cases : Accuse(c) \/ Answer(c) \/ Uphold(c) \/ Dismiss(c)

Spec == Init /\ [][Next]_custodyVars
=============================================================================
