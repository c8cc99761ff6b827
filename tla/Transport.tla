------------------------------- MODULE Transport -------------------------------
(***************************************************************************)
(* How a request reaches the card worker and its reply goes back:          *)
(* usb/hid/hid.c and usb/ccid/ccid.c (frames in, replies out), usb/usb.c   *)
(* (the two event queues, starting and ending the worker), and the worker  *)
(* loops cbor_thread (cbor.c) and apdu_thread (apdu.c) with the wait for a *)
(* button of fido.c.  It is the ESP32 build: multicore_reset_core1 ends no *)
(* task there after card_exit has forgotten its handle.                    *)
(*                                                                         *)
(* Core 0 runs one USB callback or one pass of a task to its end, except   *)
(* that card_exit blocks until the worker says something.  The worker, on  *)
(* the other core, steps between queue operations.  A request is a number; *)
(* its bytes, and those of its reply, are "whole" until something else is  *)
(* written over them.                                                      *)
(***************************************************************************)
EXTENDS Naturals, Sequences, FiniteSets

CONSTANTS
  Cids,      \* channels of the HID transport that hosts have allocated
  NoCid,     \* CID_BROADCAST, or no channel
  Conts,     \* continuation frames of a long request
  Frames,    \* frames of a reply
  Workers,   \* tasks that may exist at a time
  MaxReq,    \* bound: requests sent
  MaxNoise,  \* bound: other frames sent (cancel, init, lock, ping)
  Overlap    \* do hosts send requests and INITs while the device still works on one?

ASSUME TransportAssumption ==
  /\ NoCid \notin Cids
  /\ Conts \in Nat \ {0} /\ Frames \in Nat \ {0} /\ Workers \in Nat \ {0}
  /\ MaxReq \in Nat /\ MaxNoise \in Nat /\ Overlap \in BOOLEAN

VARIABLES
  toCard, toUsb,    \* usb_to_card_q and card_to_usb_q
  busy,             \* timeout > 0
  locked,           \* card_locked_itf and card_locked_func
  worker,           \* the worker tasks
  core0,            \* Loop, or what core 0 does when card_exit returns
  waiting, cancel,  \* async_button_wait, cancel_button
  msg,              \* msg_packet with last_req, last_cmd, last_seq and their two timers
  lock,             \* lock_cid while its time runs, else NoCid
  cborBuf, apduBuf, \* the request in cbor_request, and the one apdu.header points at
  out,              \* the reply the worker left in the response buffer
  tx, pend,         \* hid_tx as a reply under way; whose frame tud_hid_n_report has taken
  asked,            \* ghost: the requests, with who sent them
  got, lost,        \* ghost: replies hosts received in full; requests whose reply was cut off
  stopped,          \* ghost: requests their own channel, or the user, cancelled in time
  noise

queues == <<toCard, toUsb>>
card   == <<busy, locked, worker, core0>>
button == <<waiting, cancel>>
frame  == <<msg, lock>>
inputs == <<cborBuf, apduBuf>>
line   == <<out, tx, pend>>
hosts  == <<asked, got, lost, stopped, noise>>
tvars  == <<queues, card, button, frame, inputs, line, hosts>>

-----------------------------------------------------------------------------
None    == 0
RequestKinds   == {"cbor", "msg"}
Off     == [func |-> "none", pc |-> "off", req |-> None, press |-> "none"]
NoLock  == [itf |-> "none", func |-> "none"]
Loop    == [then |-> "loop", itf |-> "none", func |-> "none"]
NoReply == [req |-> None, whole |-> TRUE, verdict |-> "none"]
NoTx    == [cid |-> NoCid, cmd |-> "none", reply |-> NoReply, left |-> 0]
NoMsg   == [cid |-> NoCid, cmd |-> "none", left |-> 0, seq |-> 0, fresh |-> FALSE, armed |-> FALSE,
            rx |-> NoCid, from |-> {}]
Buf(r)  == [req |-> r, whole |-> TRUE]
Alive   == {w \in 1..Workers : worker[w].pc # "off"}
Last    == Len(asked)

\* What a host that waits its turn waits for: nothing is being worked on or sent.
Quiet   == ~busy /\ tx = NoTx /\ pend = "none"
MaySend == core0 = Loop /\ (Overlap \/ Quiet)

TransportInit ==
  /\ toCard = <<>> /\ toUsb = <<>> /\ busy = FALSE /\ locked = NoLock
  /\ worker = [w \in 1..Workers |-> Off] /\ core0 = Loop /\ waiting = FALSE /\ cancel = FALSE
  /\ msg = NoMsg /\ lock = NoCid /\ cborBuf = Buf(None) /\ apduBuf = Buf(None)
  /\ out = NoReply /\ tx = NoTx /\ pend = "none"
  /\ asked = <<>> /\ got = {} /\ lost = {} /\ stopped = {} /\ noise = 0

-----------------------------------------------------------------------------
\* Starting and ending the worker (usb.c).

Launch(itf, func) ==
  LET free == {w \in 1..Workers : worker[w].pc = "off"} IN
  /\ free # {}
  /\ worker' = [worker EXCEPT ![CHOOSE w \in free : TRUE] = [Off EXCEPT !.func = func, !.pc = "idle"]]
  /\ locked' = [itf |-> itf, func |-> func]

\* card_start and then usb_send_event(EV_CMD_AVAILABLE): at once, or after card_exit.
Start(itf, func) ==
  /\ busy' = TRUE
  /\ \/ /\ locked = [itf |-> itf, func |-> func]
        /\ toCard' = Append(toCard, "cmd")
        /\ UNCHANGED <<worker, locked, core0>>
     \/ /\ locked = NoLock
        /\ Launch(itf, func)
        /\ toCard' = Append(toCard, "cmd")
        /\ UNCHANGED core0
     \/ /\ locked \notin {NoLock, [itf |-> itf, func |-> func]}
        /\ toCard' = Append(toCard, "exit")
        /\ core0' = [then |-> "start", itf |-> itf, func |-> func]
        /\ UNCHANGED <<worker, locked>>

\* A frame core 0 writes on the spot is dropped while another is under way.
WriteNow == pend' = IF pend = "none" THEN "other" ELSE pend

Woken_Always == TRUE

\* card_exit goes on when the worker has said something, whatever it is.
Woken == toUsb # <<>>

\* It empties both queues and forgets the task, and its caller goes on: card_start launches a
\* task and the command is announced, or CTAPHID_INIT runs init_fido and answers.
ExitWakes ==
  /\ core0 # Loop /\ Woken
  /\ core0' = Loop /\ toUsb' = <<>>
  /\ \/ /\ core0.then = "start"
        /\ Launch(core0.itf, core0.func)
        /\ toCard' = <<"cmd">> /\ busy' = TRUE
        /\ UNCHANGED line
     \/ /\ core0.then = "init"
        /\ toCard' = <<>> /\ locked' = NoLock
        /\ tx' = NoTx /\ WriteNow
        /\ UNCHANGED <<busy, worker, out>>
  /\ UNCHANGED <<button, frame, inputs, hosts>>

-----------------------------------------------------------------------------
\* A frame of the HID transport (driver_process_usb_packet_hid).

\* What replacing the contents of hid_tx does to the reply that was being sent: it has just been
\* delivered if its last frame is already under way, else it is cut off.
Replaced ==
  LET ours == tx.reply.req # None
      sent == tx.left = 1 /\ pend = "data"
  IN  /\ got' = IF ours /\ sent THEN got \cup {[cid |-> tx.cid, cmd |-> tx.cmd, reply |-> tx.reply]} ELSE got
      /\ lost' = IF ours /\ ~sent THEN lost \cup {tx.reply.req} ELSE lost

\* driver_init_hid, first thing for every frame: hid_tx is emptied, the head of the response
\* buffer cleared, and the frame lands where an APDU was being read from.
Cleared(reply) == [reply EXCEPT !.whole = reply.req = None]
driver_init_hid == out' = Cleared(out) /\ Replaced
Still           == IF pend = "data" THEN "other" ELSE pend
Trampled(buf)   == [buf EXCEPT !.whole = FALSE]

Error(cid)   == [NoTx EXCEPT !.cid = cid, !.cmd = "error", !.left = 1]
Foreign(cid) == lock # NoCid /\ cid # lock
InMiddle     == msg.left > 0 /\ msg.fresh

\* ctap_error.
Rejected(cid) ==
  /\ tx' = Error(cid) /\ pend' = Still
  /\ msg' = [msg EXCEPT !.armed = FALSE, !.rx = cid]
  /\ apduBuf' = Trampled(apduBuf)
  /\ UNCHANGED <<toCard, card, cancel, lock, cborBuf, asked>>

\* A frame that only adds to msg_packet.
Collected(m) ==
  /\ tx' = NoTx /\ pend' = Still
  /\ msg' = m
  /\ apduBuf' = Trampled(apduBuf)
  /\ UNCHANGED <<toCard, card, cancel, lock, cborBuf, asked>>

cbor_process_KeepsCancel(r) == cborBuf' = Buf(r) /\ UNCHANGED cancel /\ apduBuf' = Trampled(apduBuf)

\* cbor_process copies the request; a request by APDU is read where it was received.
cbor_process(r) == cborBuf' = Buf(r) /\ cancel' = FALSE /\ apduBuf' = Trampled(apduBuf)
msg_process(r)  == apduBuf' = Buf(r) /\ UNCHANGED <<cborBuf, cancel>>

\* A complete request.  A first keepalive goes out at once for CBOR.
Accept(cid, kind, m) ==
  /\ asked' = Append(asked, [itf |-> "hid", cid |-> cid, kind |-> kind, from |-> m.from])
  /\ IF kind = "cbor" THEN cbor_process(Last + 1) ELSE msg_process(Last + 1)
  /\ Start("hid", IF kind = "cbor" THEN "cbor" ELSE "apdu")
  /\ tx' = NoTx
  /\ pend' = IF kind = "cbor" /\ pend = "none" THEN "keep" ELSE Still
  /\ msg' = [m EXCEPT !.left = 0, !.armed = FALSE, !.fresh = FALSE]
  /\ UNCHANGED lock

\* The first frame of a request, alone or with continuations to come.
InitFrame(cid, kind, long) ==
  LET m == [cid |-> cid, cmd |-> kind, left |-> IF long THEN Conts ELSE 0, seq |-> 0, fresh |-> TRUE,
            armed |-> TRUE, rx |-> cid, from |-> {cid}]
  IN  /\ MaySend /\ Last < MaxReq
      /\ driver_init_hid
      /\ IF Foreign(cid) \/ InMiddle THEN Rejected(cid)
         ELSE IF long THEN Collected(m) ELSE Accept(cid, kind, m)
      /\ UNCHANGED <<toUsb, waiting, stopped, noise>>

Mine(cid) == msg.cid = cid

\* A continuation, with the sequence number its host thinks is next.
OutOfTurn(cid, seq) == seq # msg.seq \/ (msg.cid # cid /\ msg.fresh)

ContFrame(cid, seq) ==
  LET m == IF Mine(cid)
           THEN [msg EXCEPT !.left = @ - 1, !.seq = @ + 1, !.armed = TRUE, !.rx = cid, !.from = @ \cup {cid}]
           ELSE [msg EXCEPT !.armed = TRUE, !.rx = cid]
  IN  /\ MaySend /\ msg.left > 0 /\ Last < MaxReq
      /\ driver_init_hid
      /\ IF Foreign(cid) \/ OutOfTurn(cid, seq) THEN Rejected(cid)
         ELSE IF m.left > 0 THEN Collected(m) ELSE Accept(msg.cid, msg.cmd, m)
      /\ UNCHANGED <<toUsb, waiting, stopped, noise>>

\* CTAPHID_CANCEL: no reply, and an effect only on the CBOR request of its own channel.
Cancels(cid) == busy /\ msg.cmd = "cbor" /\ msg.cid = cid

Noted_AsRequest(cid) == [msg EXCEPT !.armed = ~Foreign(cid), !.rx = cid, !.cid = cid]
Noted(cid) == [msg EXCEPT !.armed = ~Foreign(cid), !.rx = cid]

\* Which requests a frame that comes in while they are read writes over.
Overwrites_Both == cborBuf' = Trampled(cborBuf) /\ apduBuf' = Trampled(apduBuf)
Overwrites      == UNCHANGED cborBuf /\ apduBuf' = Trampled(apduBuf)

CancelFrame(cid) ==
  /\ core0 = Loop /\ noise < MaxNoise
  /\ noise' = noise + 1
  /\ driver_init_hid
  /\ pend' = Still
  /\ msg' = Noted(cid)
  /\ Overwrites
  /\ IF Foreign(cid)
     THEN tx' = Error(cid) /\ UNCHANGED <<cancel, stopped>>
     ELSE /\ tx' = NoTx
          /\ cancel' = (cancel \/ Cancels(cid))
          /\ stopped' = IF busy /\ Last > 0 /\ asked[Last].cid = cid THEN stopped \cup {Last} ELSE stopped
  /\ UNCHANGED <<queues, card, waiting, lock, asked>>

\* CTAPHID_INIT ends the worker, runs init_fido and answers with a channel.
InitChannel(cid) ==
  /\ MaySend /\ noise < MaxNoise
  /\ noise' = noise + 1
  /\ driver_init_hid
  /\ apduBuf' = Trampled(apduBuf)
  /\ IF Foreign(cid) /\ cid # NoCid
     THEN /\ tx' = Error(cid) /\ pend' = Still
          /\ msg' = [msg EXCEPT !.armed = FALSE, !.rx = cid]
          /\ UNCHANGED <<toCard, core0>>
     ELSE /\ msg' = [NoMsg EXCEPT !.cid = cid, !.cmd = "init", !.rx = cid]
          /\ tx' = NoTx
          /\ IF locked = NoLock
             THEN WriteNow /\ UNCHANGED <<toCard, core0>>
             ELSE toCard' = Append(toCard, "exit") /\ core0' = [Loop EXCEPT !.then = "init"] /\ pend' = Still
  /\ UNCHANGED <<toUsb, busy, locked, worker, button, lock, cborBuf, asked, stopped>>

\* CTAPHID_LOCK, and the commands core 0 answers itself (PING, SYNC, WINK, UUID, VERSION, ADMIN).
ShortCommand(cid, cmd) ==
  /\ MaySend /\ noise < MaxNoise
  /\ noise' = noise + 1
  /\ driver_init_hid
  /\ apduBuf' = Trampled(apduBuf)
  /\ IF Foreign(cid) \/ InMiddle
     THEN /\ tx' = Error(cid) /\ pend' = Still
          /\ msg' = [msg EXCEPT !.armed = FALSE, !.rx = cid]
          /\ UNCHANGED lock
     ELSE /\ msg' = [NoMsg EXCEPT !.cid = cid, !.cmd = cmd, !.rx = cid]
          /\ tx' = NoTx /\ WriteNow
          /\ lock' = CASE cmd = "lock" -> cid [] cmd = "unlock" -> NoCid [] OTHER -> lock
  /\ UNCHANGED <<queues, card, button, cborBuf, asked, stopped>>

\* Time passes: 100 ms after the first frame of an unfinished message (only then does the code look
\* at that time), and the end of a lock.
Ages    == msg.fresh /\ msg' = [msg EXCEPT !.fresh = FALSE]
           /\ UNCHANGED <<queues, card, button, lock, inputs, line, hosts>>
Unlocks == lock # NoCid /\ lock' = NoCid
           /\ UNCHANGED <<queues, card, button, msg, inputs, line, hosts>>

\* driver_process_usb_nopacket_hid: 500 ms after the last frame that nothing has settled.
NoPacket ==
  /\ core0 = Loop /\ msg.armed /\ ~msg.fresh
  /\ out' = Cleared(out) /\ Replaced
  /\ tx' = Error(msg.rx) /\ pend' = Still
  /\ msg' = [msg EXCEPT !.armed = FALSE, !.left = 0]
  /\ UNCHANGED <<queues, card, button, lock, inputs, asked, stopped, noise>>

\* A CCID_XFR_BLOCK (driver_process_usb_packet_ccid).  The other CCID messages are answered on the
\* spot from constants and the state of the slot, and touch nothing here.
XfrBlock ==
  /\ MaySend /\ Last < MaxReq
  /\ asked' = Append(asked, [itf |-> "ccid", cid |-> NoCid, kind |-> "msg", from |-> {NoCid}])
  /\ apduBuf' = Buf(Last + 1)
  /\ Start("ccid", "apdu")
  /\ UNCHANGED <<toUsb, button, frame, cborBuf, line, got, lost, stopped, noise>>

-----------------------------------------------------------------------------
\* The worker.

InputOf(w) == IF worker[w].func = "cbor" THEN cborBuf ELSE apduBuf

\* It takes an event.  cbor_thread answers every one, apdu_thread all but EV_CMD_AVAILABLE; both
\* end on EV_EXIT and treat anything else as a command.
Take(w) ==
  LET m == Head(toCard) IN
  /\ worker[w].pc = "idle" /\ toCard # <<>>
  /\ toCard' = Tail(toCard)
  /\ toUsb' = IF worker[w].func = "apdu" /\ m = "cmd" THEN toUsb ELSE Append(toUsb, "ack")
  /\ worker' = [worker EXCEPT ![w] =
       IF m = "exit" THEN Off ELSE [@ EXCEPT !.pc = "run", !.req = InputOf(w).req, !.press = "none"]]
  /\ UNCHANGED <<busy, locked, core0, button, frame, inputs, line, hosts>>

\* wait_button_pressed: ask core 0, then take events until one is about the button.
AskPresence(w) ==
  /\ worker[w].pc = "run" /\ worker[w].press = "none"
  /\ toUsb' = Append(toUsb, "press")
  /\ worker' = [worker EXCEPT ![w].pc = "wait"]
  /\ UNCHANGED <<toCard, busy, locked, core0, button, frame, inputs, line, hosts>>

ButtonEvents == {"pressed", "timeout", "cancelled"}
Awaited_Decisions(m) == m \in {"pressed", "cancelled"}
Awaited(m)   == m \in ButtonEvents

TakeWaiting(w) ==
  LET m == Head(toCard) IN
  /\ worker[w].pc = "wait" /\ toCard # <<>>
  /\ toCard' = Tail(toCard)
  /\ worker' = IF Awaited(m) THEN [worker EXCEPT ![w].pc = "run", ![w].press = m] ELSE worker
  /\ UNCHANGED <<toUsb, busy, locked, core0, button, frame, inputs, line, hosts>>

\* The verdict the host will see: cbor_thread overrides it when cancel_button is set by then.
Verdict(w) ==
  CASE (worker[w].func = "cbor" /\ cancel) \/ worker[w].press = "cancelled" -> "cancelled"
    [] worker[w].press = "timeout" -> "timeout"
    [] OTHER -> "done"

Finish(w) ==
  /\ worker[w].pc = "run"
  /\ out' = [req |-> worker[w].req, whole |-> InputOf(w) = Buf(worker[w].req), verdict |-> Verdict(w)]
  /\ toUsb' = Append(toUsb, "exec")
  /\ worker' = [worker EXCEPT ![w].pc = "idle"]
  /\ UNCHANGED <<toCard, busy, locked, core0, button, frame, inputs, tx, pend, hosts>>

-----------------------------------------------------------------------------
\* Core 0 between frames: card_status, hid_task and ccid_task.

Poll(itf, m) == /\ core0 = Loop /\ locked.itf = itf /\ busy /\ toUsb # <<>> /\ Head(toUsb) = m
                /\ toUsb' = Tail(toUsb)

PollOther == /\ \E itf \in {"hid", "ccid"} : Poll(itf, "ack")
             /\ UNCHANGED <<toCard, card, button, frame, inputs, line, hosts>>

PollPress == /\ \E itf \in {"hid", "ccid"} : Poll(itf, "press")
             /\ waiting' = TRUE
             /\ UNCHANGED <<toCard, card, cancel, frame, inputs, line, hosts>>

\* driver_exec_finished_hid: the reply is addressed to whoever sent the last first frame.
PollFinishedHid ==
  /\ Poll("hid", "exec")
  /\ busy' = FALSE
  /\ Replaced
  /\ tx' = [cid |-> msg.cid, cmd |-> msg.cmd, reply |-> out, left |-> Frames] /\ pend' = Still
  /\ out' = NoReply
  /\ UNCHANGED <<toCard, locked, worker, core0, button, frame, inputs, asked, stopped, noise>>

\* driver_exec_finished_ccid: the reader has one slot, and one message under way.
PollFinishedCcid ==
  /\ Poll("ccid", "exec")
  /\ busy' = FALSE
  /\ got' = got \cup {[cid |-> NoCid, cmd |-> "msg", reply |-> out]}
  /\ out' = NoReply
  /\ UNCHANGED <<toCard, locked, worker, core0, button, frame, inputs, tx, pend, asked, lost, stopped, noise>>

\* send_keepalive, while a CBOR request is worked on and nobody has cancelled.
KeepAlive ==
  /\ core0 = Loop /\ locked = [itf |-> "hid", func |-> "cbor"] /\ busy /\ toUsb = <<>>
  /\ ~cancel /\ pend = "none"
  /\ pend' = "keep"
  /\ UNCHANGED <<queues, card, button, frame, inputs, out, tx, hosts>>

\* The next frame of hid_tx, when the one before has left.
SendFrame ==
  /\ core0 = Loop /\ tx # NoTx /\ pend = "none"
  /\ pend' = "data"
  /\ UNCHANGED <<queues, card, button, frame, inputs, out, tx, hosts>>

\* tud_hid_report_complete_cb: a keepalive moves nothing; any other frame moves hid_tx on, also
\* one that hid_tx no longer, or never, held.
Advanced == CASE pend = "keep"  -> tx
              [] pend = "data"  -> [tx EXCEPT !.left = @ - 1]
              [] pend = "other" -> IF tx = NoTx THEN tx
                                   ELSE [tx EXCEPT !.left = @ - 1, !.reply = Cleared(@)]

Complete ==
  LET done == tx.reply.req # None /\ Advanced.left = 0 IN
  /\ core0 = Loop /\ pend # "none"
  /\ pend' = "none"
  /\ tx' = IF Advanced.left = 0 THEN NoTx ELSE Advanced
  /\ got' = IF done /\ pend = "data" THEN got \cup {[cid |-> tx.cid, cmd |-> tx.cmd, reply |-> tx.reply]} ELSE got
  /\ lost' = IF done /\ pend = "other" THEN lost \cup {tx.reply.req} ELSE lost
  /\ UNCHANGED <<queues, card, button, frame, inputs, out, asked, stopped, noise>>

\* button_wait_poll: a cancellation wins, be it a host's or the user's; else a timeout or approval.
ButtonPoll(e) ==
  /\ core0 = Loop /\ waiting
  /\ cancel => e = "cancelled"
  /\ waiting' = FALSE
  /\ cancel' = (cancel \/ e = "cancelled")
  /\ stopped' = IF e = "cancelled" /\ ~cancel THEN stopped \cup {Last} ELSE stopped
  /\ toCard' = Append(toCard, e)
  /\ UNCHANGED <<toUsb, card, frame, inputs, line, asked, got, lost, noise>>

-----------------------------------------------------------------------------
HostStep ==
  \/ \E c \in Cids, k \in RequestKinds, long \in BOOLEAN : InitFrame(c, k, long)
  \/ \E c \in Cids, s \in 0..Conts : ContFrame(c, s)
  \/ \E c \in Cids : CancelFrame(c)
  \/ \E c \in Cids \cup {NoCid} : InitChannel(c)
  \/ \E c \in Cids, k \in {"lock", "unlock", "ping"} : ShortCommand(c, k)
  \/ XfrBlock

Core0Step ==
  \/ ExitWakes \/ NoPacket
  \/ PollOther \/ PollPress \/ PollFinishedHid \/ PollFinishedCcid
  \/ KeepAlive \/ SendFrame \/ Complete
  \/ \E e \in ButtonEvents : ButtonPoll(e)

WorkerStep(w) == Take(w) \/ AskPresence(w) \/ TakeWaiting(w) \/ Finish(w)

TransportNext == HostStep \/ Core0Step \/ Ages \/ Unlocks \/ \E w \in 1..Workers : WorkerStep(w)

\* The worker's task, the polls of core 0 and the interrupt of a sent frame are scheduled again and
\* again; a wait for the button ends at its timeout at the latest.
TransportFairness ==
  /\ \A w \in 1..Workers : WF_tvars(Take(w) \/ TakeWaiting(w)) /\ WF_tvars(Finish(w))
  /\ WF_tvars(ExitWakes) /\ WF_tvars(PollOther \/ PollPress \/ PollFinishedHid \/ PollFinishedCcid)
  /\ SF_tvars(SendFrame) /\ WF_tvars(Complete)
  /\ WF_tvars(\E e \in ButtonEvents : ButtonPoll(e))

TransportSpec == TransportInit /\ [][TransportNext]_tvars /\ TransportFairness

-----------------------------------------------------------------------------
Answered(r) == \E g \in got : g.reply.req = r

\* Every reply a host receives in full is the reply to a request of that channel and transport,
\* under the command it was asked with, although driver_exec_finished_cont_hid takes both from the
\* last frame that came in (hosts that wait their turn; cancels may come at any time).
RepliesToAsker ==
  \A g \in got : /\ g.reply.req \in 1..Last
                 /\ g.cid = asked[g.reply.req].cid /\ g.cmd = asked[g.reply.req].kind

\* A request is what its channel sent.  It is assembled of frames of one channel only, whoever else
\* sends frames, continuations with the same number included, in between; and what cbor_thread
\* works on are the bytes of the request it was woken for, as they were received: cancels that
\* land in the receive buffer meanwhile do not touch them.
RequestIsIntact ==
  /\ \A r \in 1..Last : asked[r].from = {asked[r].cid}
  /\ \A w \in Alive :
       (worker[w].func = "cbor" /\ worker[w].pc \in {"run", "wait"}) => cborBuf = Buf(worker[w].req)

\* Two tasks never share the queues: card_exit ends the old one before card_start launches the
\* next, and core 0 in card_exit always waits for a task that will answer.
OneWorker ==
  /\ Cardinality(Alive) <= 1
  /\ core0 = Loop => (Alive = {} <=> locked = NoLock)
  /\ core0 # Loop => \/ Woken
                       \/ \E w \in Alive : worker[w].pc = "idle" /\ toCard # <<>> /\ Head(toCard) = "exit"

\* A CBOR request is answered as cancelled only if its own channel, or the user, cancelled it:
\* neither another channel nor a cancel of an earlier request counts.
CancelIsScoped ==
  \A g \in got : (g.cmd = "cbor" /\ g.reply.verdict = "cancelled") => g.reply.req \in stopped

\* Every request is answered, unless a frame that came in while its reply was being sent cut it off.
Settles == \A r \in 1..MaxReq : (r <= Last) ~> (Answered(r) \/ r \in lost)
=============================================================================
