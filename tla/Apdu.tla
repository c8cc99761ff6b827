---------------------------------- MODULE Apdu ----------------------------------
(***************************************************************************)
(* Commands and responses of the smart-card side (apdu.c) and the choice   *)
(* of the application (select_app of main.c): the lengths of a command,    *)
(* command chaining, and responses fetched piece by piece with GET         *)
(* RESPONSE, whose status words overwrite the response buffer in place.    *)
(*                                                                         *)
(* A command is handled from its arrival to its response in one step: see  *)
(* Transport for the hand-over to the worker.  A byte of a command is the  *)
(* number of that command, a byte of a response its position.              *)
(***************************************************************************)
EXTENDS Naturals, Sequences, FiniteSets

CONSTANTS
  Apps, NoApp,   \* registered applications, and none
  Headers,       \* class, instruction and parameters of the commands besides SELECT
  ChainSize,     \* sizeof(chain_buf)
  MaxData,       \* bytes of data in a command
  MaxResp,       \* bytes an application answers with
  MaxApdus       \* bound: commands sent

ASSUME ApduAssumption ==
  /\ NoApp \notin Apps /\ {"select", "get_response"} \cap Headers = {}
  /\ ChainSize \in Nat /\ MaxData \in Nat /\ MaxResp \in Nat /\ MaxApdus \in Nat

VARIABLES
  chain_buf, chain_header, is_chaining,
  current_app, loaded,        \* and ghost: the applications selected and not unloaded since
  rdata, rlen,                \* response buffer, bytes of it still to send
  rdata_gr, rdata_bk,         \* where the next piece starts, the two bytes saved there
  response_pending,
  commands,                   \* ghost: the commands so far, and whether a chained one was kept
  delivered,                  \* ghost: what an application, or SELECT, was last called with
  answer,                     \* ghost: the answer being fetched, [len, sw], or None
  received                    \* ghost: the data of that answer the host has, and the status that ended it

chain   == <<chain_buf, chain_header, is_chaining>>
select  == <<current_app, loaded>>
answers == <<rdata, rlen, rdata_gr, rdata_bk, response_pending, answer, received>>
apduVars == <<chain, select, answers, commands, delivered>>

-----------------------------------------------------------------------------
All      == MaxResp + 1                  \* stands for 256 and 65536: more than any response
Known    == Headers \cup {"select", "get_response"}
NoAnswer == [len |-> 0, sw |-> "none"]
Sent     == Len(commands)

\* A command as it comes in: its size, the fifth byte, the two bytes after it, and the last ones.
Coded(form, n, want) ==
  LET le == IF want = All THEN 0 ELSE want IN
  CASE form = "case1"  -> [size |-> 4,     p3 |-> 0,  ext |-> 0,  le |-> 0]
    [] form = "case2"  -> [size |-> 5,     p3 |-> le, ext |-> 0,  le |-> le]
    [] form = "case2e" -> [size |-> 7,     p3 |-> 0,  ext |-> le, le |-> le]
    [] form = "case3"  -> [size |-> n + 5, p3 |-> n,  ext |-> 1,  le |-> 0]
    [] form = "case3e" -> [size |-> n + 7, p3 |-> 0,  ext |-> n,  le |-> 0]
    [] form = "case4"  -> [size |-> n + 6, p3 |-> n,  ext |-> 1,  le |-> le]
    [] form = "case4e" -> [size |-> n + 9, p3 |-> 0,  ext |-> n,  le |-> le]

\* apdu_process: the lengths of data and response.
Wanted(le)    == IF le = 0 THEN All ELSE le
Lengths(c) ==
  CASE c.size = 4 -> [nc |-> 0, ne |-> All]
    [] c.size = 5 -> [nc |-> 0, ne |-> Wanted(c.p3)]
    [] c.p3 = 0 /\ c.size = 7 -> [nc |-> 0, ne |-> Wanted(c.ext)]
    [] c.p3 = 0 /\ c.size > 7 -> [nc |-> c.ext, ne |-> IF c.size = c.ext + 9 THEN Wanted(c.le) ELSE 0]
    [] OTHER -> [nc |-> c.p3, ne |-> IF c.size = c.p3 + 6 THEN Wanted(c.le) ELSE 0]

ApduInit ==
  /\ chain_buf = <<>> /\ chain_header = "none" /\ is_chaining = FALSE
  /\ current_app = NoApp /\ loaded = {}
  /\ rdata = [i \in 0..(MaxResp + 1) |-> "junk"] /\ rlen = 0
  /\ rdata_gr = 0 /\ rdata_bk = <<"junk", "junk">> /\ response_pending = FALSE
  /\ commands = <<>> /\ delivered = {}
  /\ answer = NoAnswer /\ received = [data |-> <<>>, sw |-> "none"]

-----------------------------------------------------------------------------
\* Responses.

\* A piece of n bytes from position "from" is on its way to the host, with the status behind it.
Piece(mem, from, n) == [i \in 1..n |-> mem[from + i - 1]]

\* apdu_next and the end of GET RESPONSE: all of it, or n bytes with 61xx written over the two
\* bytes behind them, which are saved first.
Respond(mem, from, len, n, fresh) ==
  LET had  == IF fresh THEN <<>> ELSE received.data
      next == from + n
  IN  IF len <= n
         THEN /\ rdata' = mem
              /\ received' = [data |-> had \o Piece(mem, from, len), sw |-> mem[from + len]]
              /\ rlen' = IF fresh THEN len ELSE 0
              /\ rdata_gr' = 0 /\ response_pending' = FALSE
              /\ UNCHANGED rdata_bk
         ELSE /\ rdata_bk' = <<mem[next], mem[next + 1]>>
              /\ rdata' = [mem EXCEPT ![next] = "61", ![next + 1] = "left"]
              /\ received' = [data |-> had \o Piece(mem, from, n), sw |-> "61"]
              /\ rlen' = len - n
              /\ rdata_gr' = next /\ response_pending' = TRUE

\* set_res_sw, apdu_finish and apdu_next for an answer of len bytes.
AnswerWith(len, sw, n) ==
  LET data == [i \in 0..(MaxResp + 1) |-> IF i < len THEN i ELSE rdata[i]]
      done == [data EXCEPT ![len] = sw, ![len + 1] = "sw2"]
  IN  answer' = [len |-> len, sw |-> sw] /\ Respond(done, 0, len, n, TRUE)

Restored_No == rdata
\* GET RESPONSE puts back the two bytes that 61xx stood on.
Restored == [rdata EXCEPT ![rdata_gr] = rdata_bk[1], ![rdata_gr + 1] = rdata_bk[2]]

\* Answered by core 0 without the worker.
GetResponse(n) ==
  /\ response_pending
  /\ Respond(Restored, rdata_gr, rlen, n, FALSE)
  /\ UNCHANGED <<chain, select, commands, delivered, answer>>

-----------------------------------------------------------------------------
\* Commands.

Data(nc) == [i \in 1..nc |-> Sent + 1]

\* What the worker makes of a chained command, and of one that ends a chain or stands alone.
Continues(h) == ~is_chaining \/ h = chain_header
Fits(nc)     == Len(chain_buf) + nc < ChainSize

Breaks_Lenient(h) == is_chaining /\ h = "select"
Breaks(h) == is_chaining /\ (h = "select" \/ h # chain_header)

Unchained == chain_buf' = <<>> /\ chain_header' = chain_header /\ is_chaining' = FALSE

Logged(h, more, nc, kept) ==
  commands' = Append(commands, [header |-> h, more |-> more, data |-> Data(nc), kept |-> kept])

\* A chained command: kept, or the whole chain is given up.
ChainPart(h, nc, n) ==
  LET kept == Continues(h) /\ Fits(nc) IN
  /\ Logged(h, TRUE, nc, kept)
  /\ IF kept
     THEN /\ chain_buf' = (IF is_chaining THEN chain_buf ELSE <<>>) \o Data(nc)
          /\ chain_header' = h /\ is_chaining' = TRUE
     ELSE Unchained
  /\ AnswerWith(0, IF kept THEN "9000" ELSE "error", n)
  /\ UNCHANGED <<select, delivered>>

\* select_app: the old application is unloaded, unless it is the one selected.
select_app(a) == current_app' = a /\ loaded' = (IF a = current_app THEN loaded ELSE loaded \ {current_app}) \cup {a}

\* The command that ends a chain, or stands alone, is called with all the data.
Call(h, nc, n) ==
  LET data == (IF is_chaining /\ ~Breaks(h) THEN chain_buf ELSE <<>>) \o Data(nc) IN
  /\ Logged(h, FALSE, nc, FALSE)
  /\ Unchained
  /\ IF (Breaks(h) /\ h # "select") \/ (is_chaining /\ ~Breaks(h) /\ ~Fits(nc))
     THEN AnswerWith(0, "error", n) /\ UNCHANGED <<select, delivered>>
     ELSE \/ /\ h = "select"
             /\ delivered' = {[at |-> Sent + 1, app |-> "select", data |-> data]}
             /\ \/ \E a \in Apps : select_app(a) /\ AnswerWith(0, "9000", n)
                \/ AnswerWith(0, "error", n) /\ UNCHANGED select
          \/ /\ h # "select" /\ current_app # NoApp
             /\ delivered' = {[at |-> Sent + 1, app |-> current_app, data |-> data]}
             /\ \/ \E len \in 0..MaxResp : h \in Headers /\ AnswerWith(len, "9000", n)
                \/ AnswerWith(0, "error", n)
             /\ UNCHANGED select
          \/ /\ h # "select" /\ current_app = NoApp
             /\ AnswerWith(0, "error", n)
             /\ UNCHANGED <<select, delivered>>

\* A GET RESPONSE with nothing pending goes to the worker like any command.
Command(h, more, c) ==
  LET l == Lengths(c) IN
  /\ Sent < MaxApdus
  /\ h = "get_response" => ~response_pending /\ ~more
  /\ IF more THEN ChainPart(h, l.nc, l.ne) ELSE Call(h, l.nc, l.ne)

\* A GET RESPONSE with the chaining bit and nothing pending: SW_OK leaves the length of the last
\* response standing, and what the buffer holds is sent once more.
StaleResponse(n) ==
  LET kept == Continues("get_response") IN
  /\ Sent < MaxApdus /\ ~response_pending
  /\ Logged("get_response", TRUE, 0, kept)
  /\ answer' = NoAnswer
  /\ IF kept
     THEN /\ chain_buf' = IF is_chaining THEN chain_buf ELSE <<>>
          /\ chain_header' = "get_response" /\ is_chaining' = TRUE
          /\ Respond([rdata EXCEPT ![rlen] = "9000", ![rlen + 1] = "sw2"], 0, rlen, n, TRUE)
     ELSE Unchained /\ Respond([rdata EXCEPT ![0] = "error", ![1] = "sw2"], 0, 0, n, TRUE)
  /\ UNCHANGED <<select, delivered>>

\* The transport selects the application of its protocol by itself, and the worker unloads the
\* application when it ends.
TransportSelects == /\ \E a \in Apps : select_app(a)
                    /\ UNCHANGED <<chain, answers, commands, delivered>>
WorkerEnds == /\ current_app # NoApp
              /\ current_app' = NoApp /\ loaded' = loaded \ {current_app}
              /\ UNCHANGED <<chain, answers, commands, delivered>>

Forms(n) == IF n = 0 THEN {"case1", "case2", "case2e"} ELSE {"case3", "case3e", "case4", "case4e"}

ApduNext ==
  \/ \E h \in Known, more \in BOOLEAN, n \in 0..MaxData, want \in 1..All :
        \E form \in Forms(n) : Command(h, more, Coded(form, n, want))
  \/ \E n \in 0..All : GetResponse(n) \/ StaleResponse(n)
  \/ TransportSelects \/ WorkerEnds

ApduSpec == ApduInit /\ [][ApduNext]_apduVars

-----------------------------------------------------------------------------
\* The chained commands right before command k of cs, none of them refused.
RunUpTo(cs, k) == {j \in 1..(k - 1) : \A i \in j..(k - 1) : cs[i].more /\ cs[i].kept}

\* s is the data of those commands js of cs, one after the other: in order, whole, and nothing else.
Copies(s, j) == {p \in 1..Len(s) : s[p] = j}
MadeOf(s, js, cs) ==
  /\ \A p, q \in 1..Len(s) : p <= q => s[p] <= s[q]
  /\ \A p \in 1..Len(s) : s[p] \in 1..Len(cs)
  /\ \A j \in 1..Len(cs) : Cardinality(Copies(s, j)) = IF j \in js THEN Len(cs[j].data) ELSE 0

\* What an application is called with is the data of its own command, and of the chained commands
\* right before it, each of the same header, none of them refused: a dropped, foreign or
\* overflowing piece never leaves its bytes in a later command.
CalledWithItsChain ==
  \A d \in delivered :
    LET h == commands[d.at].header
        pieces == IF h = "select" THEN {} ELSE RunUpTo(commands, d.at)
    IN  /\ \A j \in pieces : commands[j].header = h
        /\ MadeOf(d.data, pieces \cup {d.at}, commands)
        /\ loaded \subseteq {current_app}

\* However a response is cut into pieces, pieces of no byte and of one byte before the status
\* included, the host ends up with the application's bytes and status.
ResponseIsWhole ==
  (answer.sw # "none" /\ received.sw # "61")
     => received = [data |-> [i \in 1..answer.len |-> i - 1], sw |-> answer.sw]
=================================================================================
