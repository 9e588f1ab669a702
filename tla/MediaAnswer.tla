---------------------------- MODULE MediaAnswer ----------------------------
(***************************************************************************)
(* What a user may see of one request, in the chat and in /history,        *)
(* whatever happens to the job behind it: at most one recording, at most   *)
(* one error message, both only when Telegram's reply to the upload got    *)
(* lost, and a history that never contradicts the chat.                    *)
(***************************************************************************)
CONSTANT Jobs

VARIABLES
    chat,    \* what the user was sent for each job
    status,  \* what /history says of each job, "none" for nothing
    misled   \* jobs whose recording arrived although the upload failed

answer == <<chat, status, misled>>

Audio == {"full", "original"}

Init ==
    /\ chat = [j \in Jobs |-> {}]
    /\ status = [j \in Jobs |-> "none"]
    /\ misled = {}

Say(j, what) == chat' = [chat EXCEPT ![j] = @ \cup {what}]
Note(j, s) == status' = [status EXCEPT ![j] = s]

Open(j) ==
    /\ status[j] = "none" /\ chat[j] = {}
    /\ Note(j, "processing")
    /\ UNCHANGED <<chat, misled>>

\* The recording arrives, and the program knows it or does not.
Deliver(j, a) ==
    /\ chat[j] = {} /\ status[j] \in {"none", "processing"}
    /\ Say(j, a)
    /\ misled' \in {misled, misled \cup {j}}
    /\ UNCHANGED status

Complete(j) ==
    /\ status[j] = "processing" /\ chat[j] # {}
    /\ "error" \notin chat[j] /\ j \notin misled
    /\ Note(j, "completed")
    /\ UNCHANGED <<chat, misled>>

Fail(j) ==
    /\ status[j] = "processing"
    /\ chat[j] # {} => j \in misled
    /\ Note(j, "failed")
    /\ UNCHANGED <<chat, misled>>

Apologise(j) ==
    /\ status[j] # "completed"
    /\ chat[j] = {} \/ (j \in misled /\ "error" \notin chat[j])
    /\ Say(j, "error")
    /\ UNCHANGED <<status, misled>>

Forget(j) ==
    /\ Note(j, "none")
    /\ UNCHANGED <<chat, misled>>

Next ==
    \E j \in Jobs :
        \/ Open(j) \/ Complete(j) \/ Fail(j) \/ Apologise(j) \/ Forget(j)
        \/ \E a \in Audio : Deliver(j, a)

Spec == Init /\ [][Next]_answer
=============================================================================
