----------------------------- MODULE LatchPost -----------------------------
(***************************************************************************)
(* One post, word by word: the ARM's SET stream over the UIO wire, the    *)
(* receiver and the registers of the FPGA latch, the receipt, the status  *)
(* reads and the completion wait (runtime/src/fpga.rs, framebuffer/       *)
(* full_frame_latch.rs, mister_magik_vblank_latch.sv and its bridge).     *)
(* Words of the stream may be lost, doubled or damaged; the vertical      *)
(* blank, a legacy write of Main_MiSTer, another reader or the death of   *)
(* the presenter may come between any two steps.                          *)
(*                                                                        *)
(* Bounds: PayloadWords stands for the 11 words before the CRC, SeqLimit  *)
(* for the largest 16-bit sequence number and TxLimit for the number of   *)
(* 16-bit transaction ids.                                                *)
(***************************************************************************)
EXTENDS Naturals

CONSTANTS PayloadWords, SeqLimit, TxLimit

ASSUME WireAssumption ==
    /\ PayloadWords \in Nat \ {0}
    /\ SeqLimit \in Nat \ {0}
    /\ TxLimit \in Nat \ {0}

VARIABLES
    core,  \* the registers of the latch
    pc,    \* where post_confirm_prepared_frame and the wait stand
    next,  \* the presenter's sequence for its next post
    post,  \* the request: its sequence and slot
    sent,  \* words of the stream sent so far
    reads  \* LogicalStatusReadBudget

poster == <<pc, next, post, sent, reads>>
vars   == <<core, pc, next, post, sent, reads>>

Slots   == {1, 2}
NoSlot  == 0
Off     == 0
Foreign == 3

MaxReads == 3

Sequences == 0 .. SeqLimit    \* 0 is what a cleared register reads
Ids       == [tx : 0 .. TxLimit - 1, seq : Sequences]
NoId      == [tx |-> 0, seq |-> 0]

Cores == [open : BOOLEAN, faulted : BOOLEAN, good : BOOLEAN,
          expected : 0 .. PayloadWords,
          attempted : 0 .. TxLimit - 1,
          receipt : {"none", "accepted", "rejected"},
          accepted : Ids, pending : Ids, active : Ids,
          scan : Slots \union {Off, Foreign}, queued : Slots \union {NoSlot},
          mine : {"nowhere", "pending", "active"}]  \* history: this post's frame

TypeOK ==
    /\ core \in Cores
    /\ pc \in {"idle", "check", "set", "words", "receipt", "status", "await", "shown"}
    /\ next \in 1 .. SeqLimit
    /\ post \in [seq : 1 .. SeqLimit, slot : Slots]
    /\ sent \in 0 .. PayloadWords + 1
    /\ reads \in 0 .. MaxReads

Init ==
    /\ core \in {[open |-> FALSE, faulted |-> FALSE, good |-> FALSE, expected |-> 0,
                  attempted |-> 0, receipt |-> "none",
                  accepted |-> NoId, pending |-> NoId, active |-> NoId,
                  scan |-> output, queued |-> NoSlot, mine |-> "nowhere"] :
                      output \in {Off, Foreign}}
    /\ pc = "idle" /\ next = 1 /\ post = [seq |-> 1, slot |-> 1]
    /\ sent = 0 /\ reads = 0

-----------------------------------------------------------------------------
(* The latch: what it makes of a command, a word, a blank and a legacy    *)
(* write.  The bridge numbers the words of a command itself, so the index *)
(* of a word is always the expected one.                                  *)

Busy(c) == c.queued # NoSlot

Rejected(c) == [c EXCEPT !.receipt = "rejected", !.open = FALSE, !.faulted = TRUE]

(* Any command but SET closes an open receiver. *)
OtherCommand(c) ==
    IF c.open THEN Rejected(c) ELSE [c EXCEPT !.faulted = TRUE]

SetCommand(c) ==
    [c EXCEPT !.attempted = (@ + 1) % TxLimit, !.receipt = "none",
              !.open = TRUE, !.faulted = FALSE, !.good = TRUE, !.expected = 0]

Accepted(c, request) ==
    LET id == [tx |-> c.attempted, seq |-> request.seq]
    IN  [c EXCEPT !.open = FALSE, !.receipt = "accepted",
                  !.accepted = id, !.pending = id,
                  !.queued = request.slot, !.mine = "pending"]

(* Word w of the stream is the payload's word w, the CRC if it is the     *)
(* last one, and 0 if it was damaged.  The CRC matches exactly when every *)
(* word stands where it was sent.                                         *)
CrcWord == PayloadWords + 1

Word(c, request, w) ==
    IF ~c.open THEN IF c.faulted THEN c ELSE Rejected(c)
    ELSE IF c.expected < PayloadWords
    THEN [c EXCEPT !.expected = @ + 1, !.good = @ /\ w = c.expected + 1]
    ELSE IF c.good /\ w = CrcWord /\ ~Busy(c) THEN Accepted(c, request)
    ELSE Rejected(c)

Blank(c) ==
    [c EXCEPT !.active = c.pending, !.pending = NoId,
              !.scan = c.queued, !.queued = NoSlot,
              !.mine = IF @ = "pending" THEN "active" ELSE "nowhere"]

(* Mutant: the accepted id survives a legacy write. *)
LegacyWriteKeepsAccepted(c, output) ==
    [OtherCommand(c) EXCEPT !.active = NoId, !.pending = NoId,
                            !.scan = output, !.queued = NoSlot, !.mine = "nowhere"]

LegacyWrite(c, output) ==
    [OtherCommand(c) EXCEPT !.active = NoId, !.accepted = NoId, !.pending = NoId,
                            !.scan = output, !.queued = NoSlot, !.mine = "nowhere"]

-----------------------------------------------------------------------------
(* The presenter *)

(* Mutants: the sequence does not wrap; it wraps through zero. *)
NextSequenceUnwrapped(n) == n + 1
NextSequenceThroughZero(n) == (n + 1) % (SeqLimit + 1)

(* wrapping_add(1).max(1): zero is skipped. *)
NextSequence(n) == IF n = SeqLimit THEN 1 ELSE n + 1

BeginPost(s) ==
    /\ pc \in {"idle", "shown"}
    /\ post' = [seq |-> next, slot |-> s]
    /\ next' = NextSequence(next)
    /\ core' = [core EXCEPT !.mine = "nowhere"]
    /\ pc' = "check" /\ sent' = 0 /\ reads' = 0

(* Mutant: the slot on screen is not compared with the slot to post. *)
SlotIdleUncompared(c, request) == ~Busy(c)

(* The status under the lock must show the slot idle and nothing queued.  *)
SlotIdle(c, request) == ~Busy(c) /\ c.scan # request.slot

CheckSlot ==
    /\ pc = "check"
    /\ SlotIdle(core, post)
    /\ core' = OtherCommand(core)
    /\ pc' = "set"
    /\ UNCHANGED <<next, post, sent, reads>>

StartSet ==
    /\ pc = "set"
    /\ core' = SetCommand(core)
    /\ pc' = "words"
    /\ UNCHANGED <<next, post, sent, reads>>

(* What reaches the latch of word w. *)
Fates == {"delivered", "lost", "doubled", "damaged"}

SendWord(fate) ==
    LET w == sent + 1 IN
    /\ pc = "words"
    /\ core' = CASE fate = "delivered" -> Word(core, post, w)
                 [] fate = "lost"      -> core
                 [] fate = "doubled"   -> Word(Word(core, post, w), post, w)
                 [] fate = "damaged"   -> Word(core, post, 0)
    /\ sent' = w
    /\ pc' = IF w = CrcWord THEN "receipt" ELSE "words"
    /\ UNCHANGED <<next, post, reads>>

(* Mutant: only the sequence number of the receipt is compared. *)
ReceiptBySequence(c, request) == c.accepted.seq = request.seq

(* The receipt must be of this post, and its frame queued or on screen.   *)
ReceiptOfPost(c, request) ==
    LET id == [tx |-> c.attempted, seq |-> request.seq] IN
    /\ c.receipt = "accepted"
    /\ c.accepted = id
    /\ c.pending = id \/ c.active = id

ReadReceipt ==
    /\ pc = "receipt"
    /\ core' = OtherCommand(core)
    /\ ReceiptOfPost(core', post)
    /\ pc' = "status"
    /\ UNCHANGED <<next, post, sent, reads>>

(* posted_sequence_observed *)
Observed(c, request) ==
    c.active.seq = request.seq \/ (Busy(c) /\ c.pending.seq = request.seq)

ReadStatus ==
    /\ pc = "status" /\ reads < MaxReads
    /\ core' = OtherCommand(core)
    /\ reads' = reads + 1
    /\ pc' = IF Observed(core', post) THEN "await" ELSE "status"
    /\ UNCHANGED <<next, post, sent>>

(* wait_for_latch_completion *)
Complete(c, request) == ~Busy(c) /\ c.active.seq = request.seq

AwaitCompletion ==
    /\ pc = "await"
    /\ core' = OtherCommand(core)
    /\ Complete(core', post)
    /\ pc' = "shown"
    /\ UNCHANGED <<next, post, sent, reads>>

(* Input supersedes the frame while it waits. *)
AwaitInterrupted ==
    /\ pc = "await"
    /\ pc' = "idle"
    /\ UNCHANGED <<core, next, post, sent, reads>>

(* A refusal, an error of the wire, a receipt or a status that does not   *)
(* fit, a timeout, the end of the process: whatever fails, the next post  *)
(* is a fresh presenter's, and sequences start again at 1.                *)
PresenterLost ==
    /\ pc' = "idle" /\ next' = 1
    /\ UNCHANGED <<core, post, sent, reads>>

-----------------------------------------------------------------------------
(* The others.  The UIO lock keeps them out of the words of a command.    *)

VBlank ==
    /\ Busy(core)
    /\ core' = Blank(core)
    /\ UNCHANGED poster

MainWrites(output) ==
    /\ pc # "words"
    /\ core' = LegacyWrite(core, output)
    /\ UNCHANGED poster

OtherReader ==
    /\ pc # "words"
    /\ core' = OtherCommand(core)
    /\ UNCHANGED poster

Next ==
    \/ \E s \in Slots : BeginPost(s)
    \/ CheckSlot \/ StartSet
    \/ \E fate \in Fates : SendWord(fate)
    \/ ReadReceipt \/ ReadStatus \/ AwaitCompletion \/ AwaitInterrupted
    \/ PresenterLost
    \/ VBlank \/ OtherReader
    \/ \E output \in {Off, Foreign} : MainWrites(output)

Spec == Init /\ [][Next]_vars
-----------------------------------------------------------------------------
(* Properties *)

(* The assertions of the latch: with nothing pending, the last accepted   *)
(* frame is the active one.                                               *)
AcceptedIsActive == ~Busy(core) => core.accepted = core.active

(* A post that passed its receipt has its own frame queued or on screen,  *)
(* unless Main took the output, although sequences repeat with every new  *)
(* presenter and words go wrong on the wire.                              *)
ConfirmedIsMine ==
    pc \in {"status", "await"} => core.mine # "nowhere" \/ core.scan \notin Slots

(* The completion wait compares sequences only, and yet ends only when    *)
(* the slot of this very post is on screen: its pixels are live, and the  *)
(* other slot is free to be overwritten.                                  *)
CompletionSound ==
    [][pc = "await" /\ pc' = "shown" =>
           core.mine = "active" /\ core.scan = post.slot]_vars

(* What the properties above rest on: the queued frame is the accepted one*)
(* and the registers of an output that is not a slot's are clear; between *)
(* the check and the end of the wait only this post's frame can be queued,*)
(* and the slot to post is not on screen before it; a receipt that says   *)
(* accepted is of this post's frame until Main clears everything.         *)
RegistersFollow ==
    /\ core.pending = IF Busy(core) THEN core.accepted ELSE NoId
    /\ core.scan \notin Slots => core.active = NoId

FrameFollows ==
    /\ core.mine = "pending" => /\ core.queued = post.slot
                                /\ core.pending.seq = post.seq
    /\ core.mine = "active"  => /\ core.scan = post.slot
                                /\ core.active.seq = post.seq
                                /\ pc \notin {"idle", "shown"} => ~Busy(core)

PostingAlone ==
    /\ pc \in {"set", "words", "receipt", "status", "await"} =>
          (Busy(core) => core.mine = "pending")
    /\ pc \in {"check", "set"} => core.mine = "nowhere"
    /\ pc = "words" /\ core.open => core.mine = "nowhere"
    /\ pc \in {"set", "words"} /\ core.mine = "nowhere" => core.scan # post.slot

ReceiptFollows ==
    pc \in {"words", "receipt"} /\ core.receipt = "accepted" =>
        \/ core.mine # "nowhere"
        \/ core.scan \notin Slots /\ core.accepted = NoId

(* Word by word, the latch and its poster are the device that the         *)
(* presenter is written for: never a second frame waiting, never the slot *)
(* on screen accepted.                                                    *)
Device == INSTANCE LatchDevice WITH scan <- core.scan, queued <- core.queued

ImplementsDevice == Device!DeviceSpec
=============================================================================
