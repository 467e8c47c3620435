--------------------------- MODULE MCBenchDriver ---------------------------
(* Dialogues for BenchDriver.                                              *)
EXTENDS BenchDriver

Say(p, c, n, f) == <<[from |-> p, ch |-> c, n |-> n, flush |-> f]>>

(* What three calls of each driver say; the others are silent.             *)
Dialogue(first, second, last) ==
    [call \in Calls |->
        CASE call \in {"setup_protocol", "setup_proxy_protocol"} -> first
          [] call \in {"encrypt", "reveal"} -> second
          [] call \in {"finalize_protocol", "finalize_proxy_protocol"} -> last
          [] OTHER -> <<>>]

(* One message or none, on io[0] or io[1], with or without a flush; ...     *)
Once(flushes) == {<<>>} \cup {Say(p, c, 1, f) : p \in Parties, c \in 0..1, f \in flushes}

(* ... longer ones, which come back and keep bytes in a buffer; ...         *)
Long == {Say(Alice, 0, 3, FALSE) \o Say(Bob, 0, 1, FALSE) \o Say(Bob, 1, 2, TRUE),
         Say(Bob, 1, 2, FALSE) \o Say(Bob, 1, 1, TRUE) \o Say(Alice, 1, 3, TRUE)}

(* ... and two that use io_opt.                                            *)
InOpt(p) == [call \in Calls |->
    CASE call = "compute_VA_VB" -> Say(Bob, 0, 2, FALSE) \o Say(Alice, 0, 3, TRUE)
      [] call = "decrypt_server_finished_msg" -> Say(p, Opt, 2, TRUE)
      [] OTHER -> <<>>]

(* What the other party says to a message, or nothing.                     *)
Exchange(m) == {<<>>} \cup {b \in Once({TRUE}) : m # <<>> /\ b # <<>> /\ b[1].from # m[1].from}

Candidates ==
    UNION {{Dialogue(a, b, <<>>) : b \in Exchange(a)} : a \in Once({TRUE})}
        \cup {Dialogue(a, <<>>, b) : a \in Long, b \in Once({FALSE})}
        \cup {InOpt(p) : p \in Parties}

MCDialogues == {d \in Candidates : \A driv \in Drivers : WellFlushed(TalkOf(driv, d))}
=============================================================================
