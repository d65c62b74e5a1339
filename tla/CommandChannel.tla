--------------------------- MODULE CommandChannel ---------------------------
(***************************************************************************)
(* What a page may count on when it sends a command, however the pipeline  *)
(* collapses, repeats and loses it: one submission of a command is open at *)
(* a time, and whoever asks for the same meanwhile shares it; a submission *)
(* is applied once or not at all, now or after everybody has gone; who is  *)
(* told of a success is told of one that was applied, and everybody who    *)
(* waits for a submission is told the same at the same time.               *)
(***************************************************************************)
EXTENDS Naturals

CONSTANTS
  Callers,   (* pages that ask, each once; a submission is named after who made it *)
  Shared,    (* commands that can be recognised                           *)
  Alone,     (* commands that cannot                                      *)
  None

VARIABLES
  caller,      (* per caller: its status, the command asked for, the submission it has *)
  submission   (* per submission: the command, whether it is open, how often applied   *)

channelVars == <<caller, submission>>

Silent == [status |-> "idle", what |-> None, of |-> None]
Unmade == [what |-> None, open |-> FALSE, applied |-> 0]

ChannelInit ==
  /\ caller = [c \in Callers |-> Silent]
  /\ submission = [s \in Callers |-> Unmade]

Asks(c, q, s) == caller' = [caller EXCEPT ![c] = [status |-> "waiting", what |-> q, of |-> s]]

(* Nobody waits for the command: a submission is made. *)
Submit(c, q) ==
  /\ caller[c] = Silent /\ submission[c] = Unmade
  /\ q \in Shared => \A s \in Callers : ~(submission[s].open /\ submission[s].what = q)
  /\ Asks(c, q, c)
  /\ submission' = [submission EXCEPT ![c] = [what |-> q, open |-> TRUE, applied |-> 0]]

(* Somebody does. *)
Join(c, s) ==
  /\ caller[c] = Silent
  /\ submission[s].open /\ submission[s].what \in Shared
  /\ Asks(c, submission[s].what, s)
  /\ UNCHANGED submission

(* The platform executes the command, whether or not anybody still waits. *)
Apply(s) ==
  /\ submission[s].what # None /\ submission[s].applied = 0
  /\ submission' = [submission EXCEPT ![s].applied = 1]
  /\ UNCHANGED caller

(* Everybody who waits is told the outcome; of a failure, the command may yet be applied. *)
Tell(s, outcome) ==
  /\ submission[s].open
  /\ outcome = "answered" => submission[s].applied = 1
  /\ submission' = [submission EXCEPT ![s].open = FALSE]
  /\ caller' = [c \in Callers |->
                  IF caller[c].status = "waiting" /\ caller[c].of = s
                  THEN [caller[c] EXCEPT !.status = outcome] ELSE caller[c]]

(* A caller goes away, and with it a submission that only it can have. *)
Leave(c) ==
  /\ caller[c].status = "waiting"
  /\ caller' = [caller EXCEPT ![c].status = "left"]
  /\ submission' = [submission EXCEPT ![caller[c].of].open = @ /\ caller[c].what \in Shared]

Step ==
  \/ \E s \in Callers : Apply(s)
  \/ \E c \in Callers : Leave(c)
  \/ \E s \in Callers, outcome \in {"answered", "failed"} : Tell(s, outcome)
  \/ \E c, s \in Callers : Join(c, s)
  \/ \E c \in Callers, q \in Shared \cup Alone : Submit(c, q)

(* What changes nothing here is told apart first: most steps of a pipeline do not. *)
ChannelNext == channelVars' # channelVars /\ Step

ChannelSpec == ChannelInit /\ [][ChannelNext]_channelVars
=============================================================================
