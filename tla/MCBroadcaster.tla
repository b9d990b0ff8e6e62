--------------------------- MODULE MCBroadcaster ---------------------------
(***************************************************************************)
(* Instances of Broadcaster: two relays that may do anything before one    *)
(* that answers, with a short interval and with the default one.           *)
(***************************************************************************)
EXTENDS Broadcaster

CONSTANTS x, y, z

RelaysMC == <<x, y, z>>
EnvMC == [nsec |-> "key", chainId |-> "31337", addresses |-> "good", interval |-> 40,
          fees |-> {"min", "max"}, swap |-> "key", tor |-> "url"]
EnvsMC == {EnvMC, [EnvMC EXCEPT !.interval = 0], [EnvMC EXCEPT !.nsec = ""],
           [EnvMC EXCEPT !.swap = "bad"],
           [EnvMC EXCEPT !.interval = 0, !.chainId = "31:337", !.fees = {"min"}]}
=============================================================================
