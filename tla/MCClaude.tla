------------------------------ MODULE MCClaude ------------------------------
(* The claude of an agent, here or on a worker, in three parts that share   *)
(* no state: the lines typed to it (Typing), its dialogs (Dialogs) and      *)
(* its tunnel (Tunnel). A behaviour is of one `part`.                       *)
EXTENDS Typing

CONSTANTS
  MaxDialogs, Questions, MaxDialogFaults,                            (* of Dialogs     *)
  MaxJobs, MaxDrops, MaxTunnelFaults                                 (* of Tunnel      *)

VARIABLES
  part,
  asks, opened, mirror, away, dialogDown, dialogKeys, note, held, missing,
  due, dialogPass, take, told, given, crossed, dialogFaults,
  folder, json, record, starting, standIn, ended, tunnel, recent, link, jobs,
  made, tunnelPass, start, mover, yes, lock, orphan, card, drops,
  tunnelFaults

D == INSTANCE Dialogs WITH
  MaxFaults <- MaxDialogFaults, down <- dialogDown,
  keys <- dialogKeys, pass <- dialogPass, faults <- dialogFaults
T == INSTANCE Tunnel WITH
  MaxFaults <- MaxTunnelFaults, pass <- tunnelPass,
  faults <- tunnelFaults

dialogsVars == <<asks, opened, mirror, away, dialogDown, dialogKeys, note, held, missing,
  due, dialogPass, take, told, given, crossed, dialogFaults>>
tunnelsVars == <<folder, json, record, starting, standIn, ended, tunnel, recent, link, jobs,
  made, tunnelPass, start, mover, yes, lock, orphan, card, drops,
  tunnelFaults>>
all == <<part, vars, dialogsVars, tunnelsVars>>

MCInit ==
  /\ part \in {"typing", "dialogs", "tunnels"}
  /\ Init /\ D!Init /\ T!Init
  /\ part # "typing" => place = "here"

(* A step of one part leaves the others alone.                              *)
TypingStep(A) == part = "typing" /\ A /\ UNCHANGED <<part, dialogsVars, tunnelsVars>>
DialogsStep(A) == part = "dialogs" /\ A /\ UNCHANGED <<part, vars, tunnelsVars>>
TunnelsStep(A) == part = "tunnels" /\ A /\ UNCHANGED <<part, vars, dialogsVars>>

MCNext ==
  \/ TypingStep(Next)
  \/ DialogsStep(D!Next)
  \/ TunnelsStep(T!Next)

(* What is fair in the parts, of which one alone moves.                     *)
MCFairness ==
  /\ WF_vars(part = "typing" /\ WakerTakes)
  /\ WF_vars(part = "typing" /\ TerminalEnters)
  /\ WF_vars(part = "typing" /\ TakeStop)
  /\ WF_vars(part = "typing" /\ DaemonTakes)
  /\ WF_vars(part = "typing" /\ DaemonTypes)
  /\ WF_vars(part = "typing" /\ DaemonTypeFails(FALSE))
  /\ WF_vars(part = "typing" /\ DaemonEnters)
  /\ WF_vars(part = "typing" /\ HookGives)
  /\ WF_vars(part = "typing" /\ Time)
  /\ WF_dialogsVars(part = "dialogs" /\ D!Pass)
  /\ WF_dialogsVars(part = "dialogs" /\ D!Take)
  /\ WF_dialogsVars(part = "dialogs" /\ D!Mirrors)
  /\ WF_dialogsVars(part = "dialogs" /\ D!LinkUp)
  /\ WF_dialogsVars(part = "dialogs" /\ D!Arrives)
  /\ WF_dialogsVars(part = "dialogs" /\ D!Later)
  /\ WF_tunnelsVars(part = "tunnels" /\ T!Start)
  /\ WF_tunnelsVars(part = "tunnels" /\ T!Pass)
  /\ WF_tunnelsVars(part = "tunnels" /\ T!Finish("pass"))
  /\ WF_tunnelsVars(part = "tunnels" /\ T!Finish("mover"))
  /\ WF_tunnelsVars(part = "tunnels" /\ T!MoveCancels)
  /\ WF_tunnelsVars(part = "tunnels" /\ T!MoveEnds)
  /\ WF_tunnelsVars(part = "tunnels" /\ T!RetryOver)
  /\ SF_tunnelsVars(part = "tunnels" /\ T!StartWrites)

MCSpec == MCInit /\ [][MCNext]_all /\ MCFairness

(* What Seb answered goes to the agent as it was asked (take_answer).       *)
AnswersKept == D!AnswersKept

(* Nothing of a dialog stays: neither its claude that waits, nor its card   *)
(* (keep_dialog).                                                           *)
DialogEnds == D!DialogEnds

(* The agent on the worker is reached again, and its end is (keep,          *)
(* finish).                                                                 *)
TunnelsRight == T!TunnelsRight
=============================================================================
