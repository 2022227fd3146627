---------------------------- MODULE AtTransfer ----------------------------
(***************************************************************************)
(* One file sent over an AtCHAT net, to one station or to all of them: the *)
(* sender's send_bulk with its rounds, the resumes a late status starts    *)
(* beside it, and the receivers' answers.  The actions take the set of     *)
(* stations that hear the frame, and of receivers to whom the sender has   *)
(* just come back.                                                         *)
(***************************************************************************)
EXTENDS Integers, FiniteSets, FiniteSetsExt, Bags

CONSTANTS
    Sender,
    Receiver,       \* the stations a file may be addressed to
    Block,
    ROUNDS          \* rounds of waiting for a status

ASSUME TransferAssumption ==
    Block \subseteq Nat /\ Block # {} /\ IsFiniteSet(Block) /\ ROUNDS \in Nat \ {0}

VARIABLES
    to,             \* whom the file is addressed to
    main,           \* send_bulk: where it stands, what is left to send, the round
    waiter,         \* the entry in status_waiters
    resumes,        \* the delayed resumes under way, by what each has left to send
    done,           \* TransferOut::done
    known,          \* receivers that have heard the BULK_META
    received, complete,
    saved,          \* receivers with the whole file on disk (saved_path)
    unsaved,        \* receivers that had every block and could not write the file
    statuses,       \* the BULK_STATUS frames each receiver is waiting to transmit
    asks            \* statuses a receiver sent of its own accord

\* A receiver's TransferIn, and what became of the file.
heldVars == <<known, received, complete, saved, unsaved>>
transferVars == <<to, main, waiter, resumes, done, heldVars, statuses, asks>>

\* No waiter; one that is waited on, and one whose wait has just timed out; and
\* the same two after a status has taken them out of the table.
NoWaiter == [state |-> "none", missing |-> {}]
Waiting == [state |-> "waiting", missing |-> {}]
TimedOut == [state |-> "timedOut", missing |-> {}]
Answered(m) == [state |-> "answered", missing |-> m]
AnsweredLate == [state |-> "late", missing |-> {}]

At(pc, todo, round) == [pc |-> pc, todo |-> todo, round |-> round]
Ended == At("ended", {}, 0)
Idle == At("idle", {}, 0)

TransferInit(addressed) ==
    /\ to = addressed
    /\ main = IF addressed = {} THEN Idle ELSE At("meta", {}, 0)
    /\ waiter = NoWaiter /\ resumes = EmptyBag /\ done = FALSE
    /\ known = {} /\ complete = {} /\ saved = {} /\ unsaved = {}
    /\ received = [r \in Receiver |-> {}]
    /\ statuses = [r \in Receiver |-> EmptyBag]
    /\ asks = 0

Missing(r) == Block \ received[r]
Partial(r) == r \in known \ complete

----------------------------------------------------------------------------
(* The receivers' answers. *)

\* request_missing_from and resume_pending_receives: what is missing is asked
\* for, if anything is.
Asking(rs) == {r \in rs : Partial(r) /\ Missing(r) # {}}

\* Slip: the answer to BULK_END counts up to the last block heard.
UpToTheLast(r) == {b \in Missing(r) : \E c \in received[r] : b < c}

EndAnswer(r) == Missing(r)

\* Those to whom the sender came back ask; those who hear a JOIN_REQUEST of the
\* sender, or have sent one, ask (again); and a BULK_END is answered.
Answering(back, joined, ending) ==
    LET asked(rs, r) == IF r \in Asking(rs) THEN SetToBag({Missing(r)}) ELSE EmptyBag
    IN  /\ statuses' = [r \in Receiver |->
               statuses[r] (+) asked(back, r) (+) asked(joined, r)
                   (+) (IF r \in ending THEN SetToBag({EndAnswer(r)}) ELSE EmptyBag)]
        /\ asks' = asks + Cardinality(Asking(back)) + Cardinality(Asking(joined))

JustAnswering(back, joined) ==
    /\ Answering(back, joined, {})
    /\ UNCHANGED <<to, main, waiter, resumes, done, heldVars>>

OnMeta(heard, back) ==
    /\ known' = known \cup heard
    /\ received' = [r \in Receiver |-> IF r \in heard THEN {} ELSE received[r]]
    /\ complete' = complete \ heard
    /\ Answering(back, {}, {}) /\ UNCHANGED <<saved, unsaved>>

OnBlock(b, heard, back) ==
    /\ received' = [r \in Receiver |->
           IF r \in heard /\ Partial(r) THEN received[r] \cup {b} ELSE received[r]]
    /\ Answering(back, {}, {}) /\ UNCHANGED <<known, complete, saved, unsaved>>

\* on_bulk_end answers in every case but one: a file already complete.  A file
\* that cannot be written (save_transfer) is complete, and answered, all the same.
OnEnd(heard, back) ==
    LET ending == {r \in heard : Partial(r)}
        whole == {r \in ending : EndAnswer(r) = {}}
        files == {r \in whole : received[r] = Block}
    IN  /\ complete' = complete \cup whole
        /\ \E written \in SUBSET files :
              saved' = saved \cup written /\ unsaved' = unsaved \cup (files \ written)
        /\ Answering(back, {}, ending) /\ UNCHANGED <<known, received>>

----------------------------------------------------------------------------
(* send_bulk. *)

SendMeta(heard, back) ==
    /\ main.pc = "meta"
    /\ main' = At("send", Block, 0)
    /\ OnMeta(heard \cap to, back)
    /\ UNCHANGED <<to, waiter, resumes, done>>

SendBlock(heard, back) ==
    /\ main.pc = "send" /\ main.todo # {}
    /\ main' = [main EXCEPT !.todo = @ \ {Min(@)}]
    /\ OnBlock(Min(main.todo), heard \cap to, back)
    /\ UNCHANGED <<to, waiter, resumes, done>>

\* After the last round nothing more is waited for.  Otherwise the waiter is
\* listed as soon as the BULK_END is out: no answer is quicker.
AwaitStatus ==
    IF main.round = ROUNDS
    THEN main' = Ended /\ UNCHANGED waiter
    ELSE main' = [main EXCEPT !.pc = "wait"] /\ waiter' = Waiting

SendEnd(heard, back) ==
    /\ main.pc = "send" /\ main.todo = {}
    /\ AwaitStatus
    /\ OnEnd(heard \cap to, back)
    /\ UNCHANGED <<to, resumes, done>>

\* A frame that does not go out ends the transfer; the BULK_END of a later
\* round is waited for all the same.
MainFails ==
    /\ main.pc \in {"meta", "send"}
    /\ IF main.pc = "send" /\ main.todo = {} /\ main.round > 0
       THEN AwaitStatus
       ELSE main' = Ended /\ UNCHANGED waiter
    /\ UNCHANGED <<to, resumes, done, heldVars, statuses, asks>>

\* Slip: a round that brings no answer is not counted.
UncountedRound == At("again", {}, main.round)

\* Slip: the rounds have no end.
EndlessRound == At("again", {}, main.round + 1)

NextRound == IF main.round + 1 < ROUNDS THEN At("again", {}, main.round + 1) ELSE Ended

\* The six seconds are over, and then the entry is taken out of the table.
WaitTimesOut ==
    /\ main.pc = "wait" /\ waiter = Waiting /\ waiter' = TimedOut
    /\ UNCHANGED <<to, main, resumes, done, heldVars, statuses, asks>>

Unanswered(up) ==
    /\ main.pc = "wait" /\ waiter \in {TimedOut, AnsweredLate}
    /\ waiter' = NoWaiter
    /\ main' = IF up THEN NextRound ELSE Ended
    /\ UNCHANGED <<to, resumes, done, heldVars, statuses, asks>>

WaitAgain ==
    /\ main.pc = "again"
    /\ main' = [main EXCEPT !.pc = "wait"] /\ waiter' = Waiting
    /\ UNCHANGED <<to, resumes, done, heldVars, statuses, asks>>

\* Nothing missing ends it; anything missing is sent again, the last round too.
TakeAnswer(up) ==
    /\ main.pc = "wait" /\ waiter.state = "answered" /\ waiter' = NoWaiter
    /\ main' = IF ~up \/ waiter.missing = {} THEN Ended
               ELSE At("send", waiter.missing, main.round + 1)
    /\ done' = (done \/ (up /\ waiter.missing = {}))
    /\ UNCHANGED <<to, resumes, heldVars, statuses, asks>>

(* Statuses, and the resumes they start. *)

\* Slip: a status nobody waits for is dropped.
StatusForWaiter(m) ==
    /\ waiter' = CASE waiter = Waiting -> Answered(m)
                   [] waiter = TimedOut -> AnsweredLate
                   [] OTHER -> waiter
    /\ UNCHANGED <<to, main, resumes, done>>

\* Slip: the waiter is answered and the resume started as well.
StatusHeardTwice(m) ==
    /\ waiter' = IF waiter = Waiting THEN Answered(m) ELSE waiter
    /\ resumes' = IF m # {} THEN resumes (+) SetToBag({m}) ELSE resumes
    /\ UNCHANGED <<to, main, done>>

\* on_bulk_status: for the waiter if there is one, even if it no longer waits;
\* otherwise a delayed "carry on", unless nothing is missing.
StatusHeard(m) ==
    /\ waiter' = CASE waiter = Waiting -> Answered(m)
                   [] waiter = TimedOut -> AnsweredLate
                   [] OTHER -> waiter
    /\ resumes' = IF waiter \in {Waiting, TimedOut} \/ m = {} THEN resumes
                  ELSE resumes (+) SetToBag({m})
    /\ UNCHANGED <<to, main, done>>

StatusGone(r, m) ==
    /\ BagIn(m, statuses[r])
    /\ statuses' = [statuses EXCEPT ![r] = @ (-) SetToBag({m})]
    /\ UNCHANGED <<heldVars, asks>>

StatusLost == UNCHANGED <<to, main, waiter, resumes, done>>

ResumeBlock(todo, heard, back) ==
    /\ BagIn(todo, resumes) /\ todo # {}
    /\ resumes' = (resumes (-) SetToBag({todo})) (+) SetToBag({todo \ {Min(todo)}})
    /\ OnBlock(Min(todo), heard \cap to, back)
    /\ UNCHANGED <<to, main, waiter, done>>

ResumeEnd(heard, back) ==
    /\ BagIn({}, resumes)
    /\ resumes' = resumes (-) SetToBag({{}})
    /\ OnEnd(heard \cap to, back)
    /\ UNCHANGED <<to, main, waiter, done>>

ResumeFails(todo) ==
    /\ BagIn(todo, resumes) /\ resumes' = resumes (-) SetToBag({todo})
    /\ UNCHANGED <<to, main, waiter, done, heldVars, statuses, asks>>

TransferTypeOK ==
    /\ to \subseteq Receiver
    /\ main \in [pc : {"idle", "meta", "send", "wait", "again", "ended"},
                 todo : SUBSET Block, round : 0 .. ROUNDS]
    /\ waiter \in {NoWaiter, Waiting, TimedOut, AnsweredLate}
                  \cup {Answered(m) : m \in SUBSET Block}
    /\ IsABag(resumes) /\ DOMAIN (resumes) \subseteq SUBSET Block
    /\ done \in BOOLEAN /\ asks \in Nat
    /\ known \subseteq to /\ complete \subseteq known /\ saved \subseteq to /\ unsaved \subseteq to
    /\ received \in [Receiver -> SUBSET Block]
    /\ \A r \in Receiver :
          IsABag(statuses[r]) /\ DOMAIN (statuses[r]) \subseteq SUBSET Block
=============================================================================
