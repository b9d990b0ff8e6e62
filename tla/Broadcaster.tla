----------------------------- MODULE Broadcaster -----------------------------
(***************************************************************************)
(* mlnd/internal/nostr: the maker's ad, sent to every relay of a list at   *)
(* once and then at every tick of a timer.  A round tries the relays one   *)
(* after another, and they share its 45 seconds; a relay that failed is    *)
(* left alone for a while.                                                 *)
(*                                                                         *)
(* Times are seconds that remain.  An answer or a refusal takes no time, a *)
(* relay that hangs all the time it is given.  An ad on a relay is new     *)
(* when it was built for the last round.                                   *)
(***************************************************************************)
EXTENDS Integers, Sequences, FiniteSets

CONSTANTS
    Relays,      \* MLND_NOSTR_RELAYS, in the order of the list
    Steady,      \* relays that answer whenever they are called
    Envs,        \* the environments mlnd may be started in
    MaxRestarts  \* bound

Relay == {Relays[i] : i \in 1..Len(Relays)}

ASSUME BroadcasterAssumption ==
    /\ Relays \in Seq(Relay) /\ Steady \subseteq Relay
    /\ \A i, j \in 1..Len(Relays) : Relays[i] = Relays[j] => i = j
    /\ Envs \subseteq
          [nsec : {"", "bad", "key"}, chainId : {"", "31337", "31:337"},
           addresses : {"bad", "good"}, interval : Int,
           fees : SUBSET {"min", "max"}, swap : {"", "bad", "key"}, tor : {"", "url"}]
    /\ MaxRestarts \in Nat

VARIABLES
    env,       \* the environment of this daemon
    turn,      \* the place of the relay whose turn it is; 0 between rounds
    step,      \* "ensure" or "publish"
    left,      \* what is left of the round's time
    ticker,    \* time to the next tick, 0 before the ticker is made
    ticked,    \* a tick waits in the ticker's channel, which holds one
    relayByURL, relayFailCount, relayNextTry,
    lines,     \* what the round says of each relay so far
    held,      \* the ad each relay holds
    hung,      \* history: where a relay hung in this round
    restarts

daemon == <<turn, step, left, ticker, ticked, relayByURL, relayFailCount, relayNextTry, lines>>
vars == <<env, daemon, held, hung, restarts>>

-----------------------------------------------------------------------------
(* What is published.                                                      *)

\* The errors end mlnd; without relays or a key there is no broadcaster.
LoadBroadcasterFromEnv(e) ==
    /\ e.nsec = "key" /\ e.chainId # "" /\ e.addresses = "good" /\ e.swap # "bad"

Interval(e) == IF e.interval <= 0 THEN 1800 ELSE e.interval

\* The d tag is made of the chain id and the operator, parted by a colon.
BuildMakerAdEvent(e) ==
    [dTag |-> <<"mln", "v1">> \o (IF e.chainId = "31:337" THEN <<"31", "337">> ELSE <<e.chainId>>)
                 \o <<"operator">>,
     chainId |-> e.chainId, fees |-> e.fees = {"min", "max"}, tor |-> e.tor, swap |-> e.swap]

\* makerad.ParseAd, for the parts of an ad that vary here.
ParseAd(ad) == Len(ad.dTag) = 4 /\ ad.dTag[3] = ad.chainId

-----------------------------------------------------------------------------
(* The relays' bookkeeping.                                                *)

PublishTime == 45
MaxBackoff == 60

\* Mutant: only the round's own time limits a connection.
RoundTime(t) == t

\* The time a connection, with the AUTH that may follow, is given at most.
ConnectTime(t) == IF t < 30 THEN t ELSE 30

\* The count is of use up to 6 only.
Counted(n) == IF n < 6 THEN n + 1 ELSE 6
Backoff(n) == IF 2^n > MaxBackoff THEN MaxBackoff ELSE 2^n

Less(t, d) == IF t > d THEN t - d ELSE 0

\* d seconds go by; a tick that finds another one in the channel is dropped.
Elapse(d) ==
    /\ left' = Less(left, d)
    /\ IF ticker = 0 \/ ticker > d
       THEN ticker' = Less(ticker, d) /\ UNCHANGED ticked
       ELSE ticker' = Interval(env) - ((d - ticker) % Interval(env)) /\ ticked' = TRUE

Waited(d) == [r \in Relay |-> Less(relayNextTry[r], d)]

Here == Relays[turn]
Line(status) ==
    /\ lines' = [lines EXCEPT ![Here] = status]
    /\ turn' = turn + 1 /\ step' = "ensure"

forgetRelayAfterFailure(d) ==
    /\ relayByURL' = relayByURL \ {Here}
    /\ relayFailCount' = [relayFailCount EXCEPT ![Here] = Counted(@)]
    /\ relayNextTry' = [Waited(d) EXCEPT ![Here] = Backoff(Counted(relayFailCount[Here]))]

\* The success branch of ensureRelay, and markRelayOK.
ClearFailures(d) ==
    /\ relayFailCount' = [relayFailCount EXCEPT ![Here] = 0]
    /\ relayNextTry' = [Waited(d) EXCEPT ![Here] = 0]

-----------------------------------------------------------------------------
(* A round.                                                                *)

InRound == turn \in 1..Len(Relays)
Hangs(where) == hung' = [hung EXCEPT ![Here] = where]

\* Mutant: a relay that is left alone has failed once more.
SkippedFails ==
    /\ InRound /\ step = "ensure" /\ relayNextTry[Here] > 0
    /\ Line("skipped")
    /\ forgetRelayAfterFailure(0)
    /\ UNCHANGED <<env, left, ticker, ticked, held, hung, restarts>>

Skipped ==
    /\ InRound /\ step = "ensure" /\ relayNextTry[Here] > 0
    /\ Line("skipped")
    /\ UNCHANGED <<env, left, ticker, ticked, relayByURL, relayFailCount, relayNextTry,
                   held, hung, restarts>>

\* ensureRelay: a connection that is still up is used again.
Reuse ==
    /\ InRound /\ step = "ensure" /\ relayNextTry[Here] = 0 /\ Here \in relayByURL
    /\ step' = "publish"
    /\ UNCHANGED <<env, turn, left, ticker, ticked, relayByURL, relayFailCount, relayNextTry,
                   lines, held, hung, restarts>>

\* The connection, and AUTH where it is enabled, after d seconds.
Connect(d) ==
    /\ InRound /\ step = "ensure" /\ relayNextTry[Here] = 0 /\ Here \notin relayByURL
    /\ left > d
    /\ Elapse(d) /\ ClearFailures(d)
    /\ relayByURL' = relayByURL \cup {Here} /\ step' = "publish"
    /\ IF d = 0 THEN UNCHANGED hung ELSE Hangs("connect")
    /\ UNCHANGED <<env, turn, lines, held, restarts>>

\* With no time left even a steady relay cannot be reached.
ConnectFails(d) ==
    /\ InRound /\ step = "ensure" /\ relayNextTry[Here] = 0 /\ Here \notin relayByURL
    /\ Here \in Steady => left = 0
    /\ Elapse(d) /\ forgetRelayAfterFailure(d)
    /\ Line("error")
    /\ IF d = 0 THEN UNCHANGED hung ELSE Hangs("connect")
    /\ UNCHANGED <<env, held, restarts>>

Publish ==
    /\ InRound /\ step = "publish" /\ left > 0
    /\ held' = [held EXCEPT ![Here] = "new"]
    /\ ClearFailures(0) /\ Line("ok")
    /\ UNCHANGED <<env, left, ticker, ticked, relayByURL, hung, restarts>>

\* Refused, or hanging until the round's time is up; the ad may have arrived.
PublishFails(d) ==
    /\ InRound /\ step = "publish"
    /\ Here \in Steady => left = 0
    /\ Elapse(d) /\ forgetRelayAfterFailure(d)
    /\ Line("error")
    /\ \/ UNCHANGED held
       \/ left > 0 /\ held' = [held EXCEPT ![Here] = "new"]
    /\ IF d = 0 THEN UNCHANGED hung ELSE Hangs("publish")
    /\ UNCHANGED <<env, restarts>>

\* The round's context ends, and go-nostr closes the connections made under it.
\* The first round is followed by the making of the ticker.
EndRound ==
    /\ turn = Len(Relays) + 1
    /\ turn' = 0
    /\ \E alive \in SUBSET relayByURL : relayByURL' = alive
    /\ ticker' = IF ticker = 0 THEN Interval(env) ELSE ticker
    /\ UNCHANGED <<env, step, left, ticked, relayFailCount, relayNextTry, lines, held, hung, restarts>>

NewRound ==
    /\ turn' = 1 /\ step' = "ensure" /\ left' = PublishTime
    /\ lines' = [r \in Relay |-> "none"] /\ hung' = [r \in Relay |-> "no"]
    /\ held' = [r \in Relay |-> IF held[r] = "new" THEN "old" ELSE held[r]]

\* The tick that waits, or the next one.
Tick ==
    /\ turn = 0 /\ ticker > 0
    /\ LET d == IF ticked THEN 0 ELSE ticker
       IN /\ ticker' = IF d = 0 THEN ticker ELSE Interval(env)
          /\ relayNextTry' = Waited(d)
    /\ ticked' = FALSE
    /\ NewRound
    /\ UNCHANGED <<env, relayByURL, relayFailCount, restarts>>

\* Without a broadcaster there is never a round.
FirstTurn(e) == IF LoadBroadcasterFromEnv(e) THEN 1 ELSE 0

Init ==
    /\ env \in Envs
    /\ turn = FirstTurn(env) /\ step = "ensure" /\ left = PublishTime
    /\ ticker = 0 /\ ticked = FALSE
    /\ relayByURL = {}
    /\ relayFailCount = [r \in Relay |-> 0] /\ relayNextTry = [r \in Relay |-> 0]
    /\ lines = [r \in Relay |-> "none"]
    /\ held = [r \in Relay |-> "none"] /\ hung = [r \in Relay |-> "no"]
    /\ restarts = 0

\* mlnd ends, at any time, and is started again: the connections, the books of
\* failures and the ticker are gone.
Restart ==
    /\ restarts < MaxRestarts /\ LoadBroadcasterFromEnv(env)
    /\ restarts' = restarts + 1
    /\ NewRound
    /\ ticker' = 0 /\ ticked' = FALSE
    /\ relayByURL' = {}
    /\ relayFailCount' = [r \in Relay |-> 0] /\ relayNextTry' = [r \in Relay |-> 0]
    /\ UNCHANGED env

Run ==
    \/ Skipped \/ Reuse \/ Publish \/ EndRound \/ Tick
    \/ \E d \in {0, ConnectTime(left)} : Connect(d) \/ ConnectFails(d)
    \/ \E d \in {0, left} : PublishFails(d)

Next == Run \/ Restart

\* Time passes, and every call ends when its context does.
Spec == Init /\ [][Next]_vars /\ WF_vars(Run)

-----------------------------------------------------------------------------

\* Relays before the i-th that take all of a round's time.
StarvedAt(i) ==
    \/ \E j \in 1..i-1 : hung[Relays[j]] = "publish"
    \/ \E j, k \in 1..i-1 : j # k /\ hung[Relays[j]] = "connect" /\ hung[Relays[k]] = "connect"

\* A round reports an error for a relay that answers only if an earlier relay
\* hung on the publication, or two hung on their connection: one that cannot be
\* connected to leaves time for the others (Publish, ensureRelay).
OneHangIsSurvived ==
    \A i \in 1..Len(Relays) :
        Relays[i] \in Steady /\ lines[Relays[i]] = "error" => StarvedAt(i)

\* Whatever failed before, once no round's time is used up by earlier relays, a
\* relay that answers is given a new ad again and again, and one that scouts
\* can parse if the chain id has no colon: its backoff, earned while it was
\* never called, runs out between ticks (forgetRelayAfterFailure, Run).
SteadyRelayStaysFresh ==
    \A i \in 1..Len(Relays) :
        (/\ Relays[i] \in Steady /\ LoadBroadcasterFromEnv(env) /\ env.chainId = "31337"
         /\ <>[](~StarvedAt(i)))
            => []<>(held[Relays[i]] = "new" /\ ParseAd(BuildMakerAdEvent(env)))
=============================================================================
