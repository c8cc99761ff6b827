---------------------------------- MODULE Rest ----------------------------------
(***************************************************************************)
(* The REST server on the USB network interface: usb/lwip/rest_server.c,   *)
(* rest_server_tls.c and rest.c.                                           *)
(*                                                                         *)
(* The callbacks of lwIP and rest_task run on core 0, one at a time; a     *)
(* route's handler runs on core 1, one request at a time, and its result   *)
(* is fetched by rest_task.  A connection carries one request, and is      *)
(* named, like the request, by the number of its client.  The routes are   *)
(* the application's: what their handlers do to sessions and background    *)
(* jobs is any of the calls rest.c offers them.                            *)
(***************************************************************************)
EXTENDS Naturals, Sequences

CONSTANTS
  Conns,                            \* REST_MAX_CONNS
  RestSessions,                     \* REST_MAX_SESSIONS
  Backlog,                          \* REST_MAX_BACKGROUND_JOBS
  Seqs,                             \* values of X-Seq, a uint32_t
  MaxClients, MaxIds                \* bounds: connections, sessions created

ASSUME RestAssumption ==
  /\ Conns \in Nat \ {0} /\ RestSessions \in Nat \ {0} /\ Backlog \in Nat
  /\ Seqs \subseteq Nat /\ MaxClients \in Nat /\ MaxIds \in Nat

VARIABLES
  conns,             \* conns[], with ghosts: got, the requests the responses on it were computed
                     \* for, as long as it is neither cut nor chatty (more than the request was sent on it)
  job, result,       \* rest_core1_job, rest_core1_result
  cmds, fins,        \* EV_CMD_AVAILABLE and EV_EXEC_FINISHED under way between the cores
  core1,             \* the request whose handler runs
  backlog,           \* background_jobs, as their number
  sessions, ids,     \* rest_sessions; how many were created
  clients,           \* connections accepted so far
  signed,            \* ghost: the session and sequence number each admitted request was signed with
  executed           \* ghost: how often the handler of each request ran

restVars   == <<conns, job, result, cmds, fins, core1, backlog, sessions, ids, clients, signed, executed>>
jobVars    == <<job, result, cmds, fins, core1>>
appVars    == <<backlog, sessions, ids>>
restGhosts == <<signed, executed>>

-----------------------------------------------------------------------------
NoConn   == [client |-> 0]
NoRestJob == [pending |-> FALSE, slot |-> 0, client |-> 0]
NoResult == [ready |-> FALSE, about |-> 0]
NoOne    == 0        \* an answer of the server itself, or a background job
Idle     == MaxClients + 1
Unsigned == [id |-> 0, seq |-> 0]
NoRestSession == [id |-> 0, status |-> "free", last_seq |-> 0, aged |-> FALSE]

RestInit ==
  /\ conns = [s \in 1..Conns |-> NoConn]
  /\ job = NoRestJob /\ result = NoResult /\ cmds = 0 /\ fins = 0 /\ core1 = Idle
  /\ backlog = 0 /\ sessions = [i \in 1..RestSessions |-> NoRestSession] /\ ids = 0
  /\ clients = 0 /\ signed = [c \in 1..MaxClients |-> Unsigned]
  /\ executed = [c \in 0..MaxClients |-> 0]

-----------------------------------------------------------------------------
(* Connections. *)

\* alloc_conn.
FreeConns == {s \in 1..Conns : conns[s] = NoConn}
FirstFree(s) == s \in FreeConns /\ \A t \in FreeConns : s <= t
Taken(s) == s # 0 /\ conns[s] # NoConn

\* rest_close_conn: the slot is free, or, when lwIP has no memory to close, in use as before without
\* the rest of a body.
Closings(c) == {NoConn, [c EXCEPT !.tx = FALSE, !.cut = TRUE, !.got = <<>>]}
Closed(s) == \E c \in Closings(conns[s]) : conns' = [conns EXCEPT ![s] = c]

\* What a whole write leaves: TLS closes, a plain connection stays, the rest of a handler's long
\* body perhaps still to be sent.
Written(c, about) ==
  IF c.tls THEN Closings(c) ELSE {[c EXCEPT !.tx = tx] : tx \in IF about = NoOne THEN {c.tx} ELSE BOOLEAN}

\* send_response on slot s, whose connection is c by now: a write that fails closes.
Send(s, c, about) ==
  \E k \in Closings(c) \cup Written([c EXCEPT !.got = IF c.cut \/ c.chatty THEN <<>> ELSE Append(@, about)], about) :
    conns' = [conns EXCEPT ![s] = k]

\* rest_accept, with a slot left.
rest_accept(s, tls) ==
  /\ clients < MaxClients /\ FirstFree(s)
  /\ clients' = clients + 1
  /\ conns' = [conns EXCEPT ![s] = [client |-> clients + 1, tls |-> tls, stage |-> "reading", tx |-> FALSE,
                                   cut |-> FALSE, got |-> <<>>, chatty |-> FALSE]]
  /\ UNCHANGED <<jobVars, appVars, restGhosts>>

\* The client leaves, or the connection fails (rest_recv, rest_err, a TLS error).
Leaves(s) ==
  /\ Taken(s) /\ Closed(s)
  /\ UNCHANGED <<jobVars, appVars, clients, restGhosts>>

\* rest_poll: too long without a whole request.
TimesOut(s) ==
  /\ Taken(s) /\ conns[s].stage # "dispatched" /\ Closed(s)
  /\ UNCHANGED <<jobVars, appVars, clients, restGhosts>>

\* rest_poll and rest_sent: the rest of the body, or a failure.
rest_lwip_continue_send(s) ==
  /\ Taken(s) /\ conns[s].tx
  /\ conns' = [conns EXCEPT ![s].tx = FALSE] \/ Closed(s)
  /\ UNCHANGED <<jobVars, appVars, clients, restGhosts>>

-----------------------------------------------------------------------------
(* Sessions (rest.c). *)

\* rest_session_get_by_id_str; the sequence number must have grown.
Live(i) == sessions[i].status # "free"
Session(i, id) == Live(i) /\ sessions[i].id = id
FreshSeq_Same(i, seq) == seq >= sessions[i].last_seq
FreshSeq(i, seq) == seq > sessions[i].last_seq

\* rest_session_create takes the first slot that is not in use.
Vacant == {i \in 1..RestSessions : ~Live(i)}
session_create(status) ==
  /\ ids < MaxIds /\ ids' = ids + 1
  /\ \E i \in Vacant : /\ \A k \in Vacant : i <= k
                       /\ sessions' = [sessions EXCEPT ![i] = [id |-> ids + 1, status |-> status, last_seq |-> 0, aged |-> FALSE]]

\* Of a session that is over nothing but that is ever read again.
Now(i, status) == IF status = "free" THEN NoRestSession ELSE [sessions[i] EXCEPT !.status = status]
session_set_status(i, status) == Live(i) /\ sessions' = [sessions EXCEPT ![i] = Now(i, status)] /\ UNCHANGED ids
session_update_activity(i) == Live(i) /\ sessions' = [sessions EXCEPT ![i].aged = FALSE] /\ UNCHANGED ids
session_clear_all == sessions' = [i \in 1..RestSessions |-> NoRestSession] /\ UNCHANGED ids

\* What a handler may have done when it returns.
background_job_push == backlog' = IF backlog < Backlog THEN backlog + 1 ELSE backlog
HandlerEffects ==
  \/ UNCHANGED appVars
  \/ background_job_push /\ UNCHANGED <<sessions, ids>>
  \/ /\ UNCHANGED backlog
     /\ \/ \E status \in {"waiting", "ok"} : session_create(status)
        \/ \E i \in 1..RestSessions : \/ \E status \in {"ok", "waiting", "free"} : session_set_status(i, status)
                                      \/ session_update_activity(i)
        \/ session_clear_all

\* Ten minutes without a request, or two hours.
SessionAges(i) ==
  /\ Live(i) /\ ~sessions[i].aged /\ sessions' = [sessions EXCEPT ![i].aged = TRUE]
  /\ UNCHANGED <<jobVars, conns, backlog, ids, clients, restGhosts>>

-----------------------------------------------------------------------------
(* A request (rest_handle_request). *)

Pending_UntilReady == job.pending /\ ~result.ready
Pending == job.pending

\* rest_start_core1_job; slot 0 stands for no connection.
StartJob(s, c) ==
  /\ ~Pending
  /\ job' = [pending |-> TRUE, slot |-> s, client |-> c] /\ result' = NoResult
  /\ cmds' = cmds + 1 /\ UNCHANGED <<fins, core1>>

\* A whole request is there: request_dispatched is set.
Arrives(s) == Taken(s) /\ conns[s].stage = "reading" /\ UNCHANGED clients
Dispatched(s) == [conns[s] EXCEPT !.stage = "dispatched"]

\* 503 while a job is pending; 400, 401, 403, 404, 405 and 415.
Refuse(s) ==
  /\ Arrives(s) /\ Send(s, Dispatched(s), NoOne)
  /\ UNCHANGED <<jobVars, appVars, restGhosts>>

\* 401 for a session whose time is over, which ends it.
ExpireSession(s, i) ==
  /\ Arrives(s) /\ sessions[i].status = "ok" /\ sessions[i].aged
  /\ sessions' = [sessions EXCEPT ![i] = Now(i, "free")]
  /\ Send(s, Dispatched(s), NoOne)
  /\ UNCHANGED <<jobVars, backlog, ids, restGhosts>>

\* The route needs no session, or the request is signed for a session that is authenticated and in
\* time, with a sequence number it has not seen.
Admits(s) ==
  \/ UNCHANGED <<sessions, signed>>
  \/ \E id \in 1..ids, seq \in Seqs, i \in 1..RestSessions :
       /\ Session(i, id) /\ sessions[i].status = "ok" /\ ~sessions[i].aged /\ FreshSeq(i, seq)
       /\ sessions' = [sessions EXCEPT ![i].last_seq = seq]
       /\ signed' = [signed EXCEPT ![conns[s].client] = [id |-> id, seq |-> seq]]

\* The handler is core 1's; or the query cannot be parsed.
Admit(s) ==
  /\ Arrives(s) /\ ~Pending /\ Admits(s)
  /\ \/ StartJob(s, conns[s].client) /\ conns' = [conns EXCEPT ![s] = Dispatched(s)]
     \/ Send(s, Dispatched(s), NoOne) /\ UNCHANGED jobVars
  /\ UNCHANGED <<backlog, ids, executed>>

\* POST /device/jobs/cancel is answered here, while a job is pending too.
CancelJob(s) ==
  /\ Arrives(s) /\ Admits(s)
  /\ executed' = [executed EXCEPT ![conns[s].client] = @ + 1]
  /\ Send(s, Dispatched(s), conns[s].client)
  /\ UNCHANGED <<jobVars, backlog, ids>>

\* 400 for a plain request whose headers cannot be read.
BadRequest(s) ==
  /\ Taken(s) /\ conns[s].stage = "reading" /\ ~conns[s].tls
  /\ Send(s, [conns[s] EXCEPT !.stage = "bad"], NoOne)
  /\ UNCHANGED <<jobVars, appVars, clients, restGhosts>>

\* Bytes after the request on a plain connection, or too many: 400, for the first line has lost its
\* end to the first parse, or 413.  Once for each connection is the bound.
Surplus(s) ==
  /\ Taken(s) /\ ~conns[s].tls /\ ~conns[s].chatty
  /\ Send(s, [conns[s] EXCEPT !.chatty = TRUE], NoOne)
  /\ UNCHANGED <<jobVars, appVars, clients, restGhosts>>

-----------------------------------------------------------------------------
(* Core 1 (rest_core1_thread) and rest_task. *)

CoreTakes ==
  /\ cmds > 0 /\ core1 = Idle
  /\ cmds' = cmds - 1 /\ core1' = job.client /\ result' = NoResult
  /\ executed' = [executed EXCEPT ![job.client] = IF job.client = NoOne THEN 0 ELSE @ + 1]
  /\ UNCHANGED <<job, fins, conns, appVars, clients, signed>>

\* A handler that fails has 500 for its response.
CoreEnds ==
  /\ core1 # Idle /\ HandlerEffects
  /\ result' = [ready |-> TRUE, about |-> core1] /\ core1' = Idle /\ fins' = fins + 1
  /\ UNCHANGED <<job, cmds, conns, clients, restGhosts>>

\* rest_task frees the job before it answers whoever holds the slot by now.
AnswerJob ==
  /\ job.pending /\ fins > 0
  /\ fins' = fins - 1 /\ job' = NoRestJob /\ result' = NoResult
  /\ \/ ~Taken(job.slot) /\ UNCHANGED conns
     \/ /\ Taken(job.slot)
        /\ Send(job.slot, conns[job.slot], IF result.ready THEN result.about ELSE NoOne)
  /\ UNCHANGED <<cmds, core1, appVars, clients, restGhosts>>

BackgroundJob ==
  /\ ~Pending /\ backlog > 0
  /\ backlog' = backlog - 1 /\ StartJob(0, NoOne)
  /\ UNCHANGED <<conns, sessions, ids, clients, restGhosts>>

\* card_exit for a command of another transport empties the queue: the job stays pending for good.
CardTaken ==
  /\ fins > 0 /\ fins' = 0
  /\ UNCHANGED <<job, result, cmds, core1, conns, appVars, clients, restGhosts>>

RestNext ==
  \/ \E s \in 1..Conns :
       \/ \E tls \in BOOLEAN : rest_accept(s, tls)
       \/ Leaves(s) \/ TimesOut(s) \/ rest_lwip_continue_send(s)
       \/ Refuse(s) \/ Admit(s) \/ CancelJob(s) \/ BadRequest(s) \/ Surplus(s)
       \/ \E i \in 1..RestSessions : ExpireSession(s, i)
  \/ \E i \in 1..RestSessions : SessionAges(i)
  \/ CoreTakes \/ CoreEnds \/ AnswerJob \/ BackgroundJob \/ CardTaken

RestSpec == RestInit /\ [][RestNext]_restVars

-----------------------------------------------------------------------------
\* Nobody is forgotten, answered twice or given another's answer: a client that sends one request
\* gets one response to it, or waits for the job that works on it, as long as its connection
\* lives.  A response computed for someone else can only be one whose client has left: its slot
\* is answered, whoever holds it (rest_task, rest_core1_job.conn).
OneAnswerEach ==
  \A s \in 1..Conns :
    Taken(s) /\ ~conns[s].cut /\ ~conns[s].chatty =>
      LET c == conns[s].client
          got == conns[s].got
          own == {k \in 1..Len(got) : got[k] \in {NoOne, c}}
      IN  /\ \A j, k \in own : j = k
          /\ conns[s].stage = "dispatched" /\ own = {} => job.pending /\ job.slot = s /\ job.client = c
          /\ \A k \in (1..Len(got)) \ own, t \in 1..Conns : conns[t].client # got[k]

\* A request runs once: bytes that follow it on its connection do not run it again, and a copy of a
\* signed request that comes over another connection, in whatever order, after an expired or
\* terminated session's slot was given away, too late or while a job is pending, does not run.
RequestsOnce ==
  /\ \A c \in 1..MaxClients : executed[c] <= 1
  /\ \A c, d \in 1..MaxClients :
       executed[c] = 1 /\ executed[d] = 1 /\ signed[c] # Unsigned /\ signed[c] = signed[d] => c = d
================================================================================
