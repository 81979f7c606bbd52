------------------------------ MODULE RpcClient ------------------------------
(***************************************************************************)
(* The client of the RPC API (client/rpc): calls that read a stream of     *)
(* JSON objects and hand them to the caller, some through a goroutine; a   *)
(* subscription that is closed; the file that seeks in a stream; and what  *)
(* is made of error messages.                                              *)
(***************************************************************************)
EXTENDS Integers, Sequences, FiniteSets

LOCAL INSTANCE TLC
LOCAL INSTANCE SequencesExt

CONSTANTS StreamItems, \* objects a server sends at most
          FileSize,    \* bytes of the file behind an apiFile
          ForwardLimit \* forwardSeekLimit

VARIABLES rcall, \* one streaming call
          rsub,  \* a subscription
          rfile, \* an apiFile
          rmsg   \* an error message that was parsed

rpcvars == <<rcall, rsub, rfile, rmsg>>

-----------------------------------------------------------------------------
(* Streaming calls *)

\* Each streaming call is a loop over the same stream, and differs in
\* chan: it returns a channel at once, which a goroutine feeds, or returns when
\*   the stream has ended;
\* refused: what it returns for an answer with an error status, of which
\*   Request.Send has made Response.Error;
\* broken: what an error of the stream becomes: the call's result ("return"),
\*   a last item that carries it ("told"), one that does not ("blank"), or
\*   nothing ("drop");
\* leaves: an item that nobody takes before the context ends is the last.
\* pin.Ls does not look at Response.Error, and reads from the missing output.
PinLsCall == [chan |-> FALSE, refused |-> "panic", broken |-> "return", leaves |-> TRUE]
\* The refused Ls returns the wrong variable, which is nil.
UnixfsLsCall == [chan |-> FALSE, refused |-> "ok", broken |-> "return", leaves |-> TRUE]
UnixfsAddCall == [chan |-> FALSE, refused |-> "error", broken |-> "return", leaves |-> TRUE]
PinVerifyCall == [chan |-> TRUE, refused |-> "error", broken |-> "told", leaves |-> TRUE]
NameSearchCall == [chan |-> TRUE, refused |-> "error", broken |-> "blank", leaves |-> FALSE]
FindProvidersCall == [chan |-> TRUE, refused |-> "error", broken |-> "drop", leaves |-> TRUE]

Streaming == "pin.Ls" :> PinLsCall @@ "unixfs.Ls" :> UnixfsLsCall
             @@ "unixfs.Add" :> UnixfsAddCall @@ "pin.Verify" :> PinVerifyCall
             @@ "name.Search" :> NameSearchCall
             @@ "routing.FindProviders" :> FindProvidersCall

\* n objects, then the end of the stream or an error in its trailer; status is
\* the answer's. pc: the reading code; got: objects the caller has; told: an
\* error the caller has; closed: the caller's channel.
CallInit ==
  \E api \in DOMAIN Streaming, status \in {"ok", "error"},
     n \in 0..StreamItems, end \in {"eof", "error"}:
    rcall = [api |-> api, status |-> status, n |-> n, end |-> end, pc |-> "new",
             at |-> 0, got |-> 0, told |-> FALSE, closed |-> FALSE,
             result |-> "none", canceled |-> FALSE, reads |-> TRUE]

\* A channel call returns the channel, and reports through it from then on.
CallSends ==
  /\ rcall.pc = "new"
  /\ rcall' =
       IF rcall.status = "error"
       THEN [rcall EXCEPT !.pc = "end", !.result = Streaming[rcall.api].refused,
               !.closed = ~Streaming[rcall.api].chan]
       ELSE [rcall EXCEPT !.pc = "decode",
               !.result = IF Streaming[rcall.api].chan THEN "ok" ELSE "none"]

\* The end of a reading loop: the channel is closed, and a blocking call
\* returns.
CallCloses(c, result) ==
  [c EXCEPT !.pc = "end", !.closed = TRUE,
            !.result = IF Streaming[c.api].chan THEN @ ELSE result]

\* dec.Decode: an object; the end; or an error, which a blocking call returns
\* and others send as a last item or drop.
CallDecodes ==
  /\ rcall.pc = "decode"
  /\ rcall' =
       CASE rcall.at < rcall.n -> [rcall EXCEPT !.pc = "send", !.at = @ + 1]
         [] rcall.at = rcall.n /\ rcall.end = "error"
              /\ Streaming[rcall.api].broken \in {"told", "blank"} ->
              [rcall EXCEPT !.pc = "last"]
         [] OTHER -> CallCloses(rcall, IF rcall.end = "eof" THEN "ok" ELSE "error")

\* Mutant: the caller alone is waited for.
CallDeliversBlind ==
  /\ rcall.pc \in {"send", "last"}
  /\ rcall.reads
  /\ rcall' = IF rcall.pc = "send"
              THEN [rcall EXCEPT !.pc = "decode", !.got = @ + 1]
              ELSE [CallCloses(rcall, "ok") EXCEPT
                      !.told = Streaming[rcall.api].broken = "told"]

\* The caller takes what is sent, or the context ends first. name.Search goes on
\* decoding after that.
CallDelivers ==
  /\ rcall.pc \in {"send", "last"}
  /\ \/ /\ rcall.reads
        /\ rcall' = IF rcall.pc = "send"
                    THEN [rcall EXCEPT !.pc = "decode", !.got = @ + 1]
                    ELSE [CallCloses(rcall, "ok") EXCEPT
                            !.told = Streaming[rcall.api].broken = "told"]
     \/ /\ rcall.canceled
        /\ rcall' = IF rcall.pc = "send" /\ ~Streaming[rcall.api].leaves
                    THEN [rcall EXCEPT !.pc = "decode"]
                    ELSE CallCloses(rcall, "error")

\* The caller cancels, and may stop reading then.
CallerCancels == /\ ~rcall.canceled
                 /\ rcall.pc # "end"
                 /\ rcall' = [rcall EXCEPT !.canceled = TRUE, !.reads = FALSE]

CallSteps == CallSends \/ CallDecodes \/ CallDelivers

CallNext == CallSteps \/ CallerCancels

-----------------------------------------------------------------------------
(* PubsubAPI.Subscribe *)

\* g: the goroutine; body: the answer's body is open; chan: sub.done is
\* "open", "closed" or, after Close, "nil"; armed: what the goroutine's select
\* waits on was read before Close cleared the field.
SubInit == rsub = [g |-> "decode", body |-> TRUE, chan |-> "open",
                   armed |-> FALSE, err |-> FALSE, ctx |-> TRUE,
                   calls |-> 0, reading |-> FALSE]

\* A message arrives, or the closed body gives an error other than EOF; then
\* the channels of the select are read.
SubDecodes == /\ rsub.g = "decode"
              /\ \E err \in IF rsub.body THEN BOOLEAN ELSE {TRUE}:
                   rsub' = [rsub EXCEPT !.g = "select", !.err = err,
                                        !.armed = rsub.chan # "nil"]

\* The stream ends.
SubEnds == /\ rsub.g = "decode"
           /\ rsub.body
           /\ rsub' = [rsub EXCEPT !.g = "end"]

SubSelects ==
  /\ rsub.g = "select"
  /\ \/ /\ rsub.reading
        /\ rsub' = [rsub EXCEPT !.g = "decode", !.reading = FALSE]
     \/ /\ rsub.armed /\ rsub.chan # "open"
        /\ rsub' = [rsub EXCEPT !.g = "end"]
     \/ /\ ~rsub.ctx
        /\ rsub' = [rsub EXCEPT !.g = "end"]

\* The caller asks for the next message; not after Close.
SubNexts == /\ rsub.chan = "open"
            /\ ~rsub.reading
            /\ rsub.calls < StreamItems
            /\ rsub' = [rsub EXCEPT !.reading = TRUE, !.calls = @ + 1]

\* Close: done is closed, the field is cleared, and the body is closed.
SubCloses == /\ rsub.chan = "open"
             /\ rsub' = [rsub EXCEPT !.chan = "nil", !.body = FALSE,
                                     !.reading = FALSE]

SubCanceled == /\ rsub.ctx
               /\ rsub' = [rsub EXCEPT !.ctx = FALSE, !.body = FALSE]

SubSteps == SubDecodes \/ SubSelects

SubNext == SubSteps \/ SubEnds \/ SubNexts \/ SubCloses \/ SubCanceled

-----------------------------------------------------------------------------
(* apiFile *)

\* at: the field; r: the response; pos: where its stream is. last is the
\* outcome of the last call.
FileInit == rfile = [at |-> 0, r |-> "open", pos |-> 0,
                     last |-> [op |-> "open", want |-> 0, got |-> 0, ok |-> TRUE]]

\* The position a Seek means.
Target(f, whence, off) == CASE whence = "start" -> off
                            [] whence = "current" -> f.at + off
                            [] whence = "end" -> FileSize + off

\* reset: a new request at the offset; one that fails leaves no response. The
\* server refuses a negative offset.
FileReset(f, fails) == IF fails \/ f.at < 0 THEN [f EXCEPT !.r = "nil"]
                       ELSE [f EXCEPT !.r = "open", !.pos = f.at]

\* Mutant: a forward skip sets the position before it has skipped.
SeekFileEager(f, to, fails) ==
  IF f.at = to THEN f
  ELSE IF f.at < to /\ to - f.at < ForwardLimit
  THEN LET k == IF f.r = "open"
                THEN (IF f.pos + (to - f.at) <= FileSize THEN to - f.at
                      ELSE IF f.pos < FileSize THEN FileSize - f.pos ELSE 0)
                ELSE 0
       IN [f EXCEPT !.at = to, !.pos = @ + k]
  ELSE FileReset([f EXCEPT !.at = to], fails)

\* Seek: nothing to do, a short skip forward that may run into the end, or a
\* new request.
SeekFile(f, to, fails) ==
  IF f.at = to THEN f
  ELSE IF f.at < to /\ to - f.at < ForwardLimit
  THEN LET k == IF f.r = "open"
                THEN (IF f.pos + (to - f.at) <= FileSize THEN to - f.at
                      ELSE IF f.pos < FileSize THEN FileSize - f.pos ELSE 0)
                ELSE 0
       IN [f EXCEPT !.at = @ + k, !.pos = @ + k]
  ELSE FileReset([f EXCEPT !.at = to], fails)

\* A skip needs a response: Seek and Read after a reset that failed read from a
\* missing one.
NeedsResponse(f, to) == f.at < to /\ to - f.at < ForwardLimit

SeeksFile ==
  \E whence \in {"start", "current", "end"}, off \in -FileSize..FileSize + 1,
     fails \in BOOLEAN:
    LET to == Target(rfile, whence, off)
        f == SeekFile(rfile, to, fails)
    IN /\ NeedsResponse(rfile, to) => rfile.r # "nil"
       /\ to \in -1..FileSize + 1
       /\ rfile' = [f EXCEPT !.last =
            [op |-> "seek", got |-> f.at,
             want |-> off + (CASE whence = "start" -> 0
                               [] whence = "current" -> rfile.at
                               [] whence = "end" -> FileSize),
             ok |-> f.at = to /\ (rfile.at = to \/ f.r = "open")]]

ReadsFile ==
  /\ rfile.r # "nil"
  /\ \E n \in 0..FileSize:
       /\ n > 0 => rfile.r = "open"
       /\ n > 0 => rfile.pos + n <= FileSize
       /\ rfile' = [rfile EXCEPT !.at = @ + n, !.pos = @ + n,
              !.last = [op |-> "read", want |-> rfile.at, got |-> rfile.pos,
                        ok |-> n > 0]]

ClosesFile == /\ rfile' = [rfile EXCEPT !.r = IF @ = "open" THEN "closed" ELSE @,
                             !.last = [op |-> "close", want |-> 0, got |-> 0,
                                       ok |-> TRUE]]

FileNext == SeeksFile \/ ReadsFile \/ ClosesFile

-----------------------------------------------------------------------------
(* Error messages *)

\* A message is a sequence of pieces: "find" is the phrase before a CID, "stored"
\* the blockstore's phrase, "v0" and "b32" CIDs as the error prints them, "b58" a
\* CID in another base, "space" ends a CID.
Pieces == {"text", "find", "stored", "v0", "b32", "b58", "node", "space"}

Messages == UNION {[1..k -> Pieces]: k \in 0..4}

\* The CID after the first phrase: the pieces up to a break.
CidPieces(msg, i) ==
  LET breaks == {j \in i + 1..Len(msg): msg[j] = "space"}
      to == IF breaks = {} THEN Len(msg)
            ELSE (CHOOSE j \in breaks: \A k \in breaks: j <= k) - 1
  IN SubSeq(msg, i + 1, to)

\* parseIPLDErrNotFound: the first phrase with a CID that the error would print
\* so, or with "node"; text is what the resulting error says.
ParseIPLDNotFound(msg) ==
  LET keys == {i \in DOMAIN msg: msg[i] = "find"}
      i == CHOOSE k \in keys: \A l \in keys: k <= l
      cut == IF i < Len(msg) /\ msg[i + 1] = "node" THEN <<"node">>
             ELSE CidPieces(msg, i)
      post == SubSeq(msg, i + Len(cut) + 1, Len(msg))
  IN IF keys = {} THEN [handled |-> FALSE, text |-> <<>>]
     ELSE IF cut = <<"node">> \/ cut = <<"v0">> \/ cut = <<"b32">>
     THEN [handled |-> TRUE, text |-> SubSeq(msg, 1, i) \o cut \o post]
     ELSE [handled |-> FALSE, text |-> <<>>]

\* parseErrNotFound, with the message itself as the error otherwise.
ParseNotFound(msg) ==
  LET r == ParseIPLDNotFound(msg)
  IN IF r.handled THEN [found |-> FALSE, text |-> r.text]
     ELSE [found |-> "stored" \notin ToSet(msg), text |-> msg]

ParsesMessage == \E msg \in Messages:
                   rmsg' = [topic |-> "message", msg |-> msg,
                            err |-> ParseNotFound(msg)]

-----------------------------------------------------------------------------
(* Properties *)

\* A call that reports success, with the caller reading to the end, has handed
\* over everything the server sent, and the server's stream ended well: an
\* error in the trailer reaches the caller of pin.Ls, unixfs.Ls, unixfs.Add and
\* pin.Verify (trailerReader and the loops that decode).
StreamReported ==
  rcall.api \notin {"name.Search", "routing.FindProviders"}
    /\ rcall.status = "ok" /\ rcall.pc = "end" /\ rcall.result = "ok"
    /\ ~rcall.canceled =>
      /\ rcall.got = rcall.n
      /\ rcall.end = "eof" \/ rcall.told

\* Every call comes to its end, and its goroutine with it, although a caller who
\* cancels no longer reads.
CallEnded == rcall.pc = "end"

\* The goroutine of a subscription ends when the context does. (Closing the
\* subscription does not always end it: Close clears the field that the
\* goroutine would wait on.)
SubscriptionEnds == []<>(~rsub.ctx => rsub.g = "end")

\* A file's stream stands where the file thinks it does, after every mixture of
\* skips, new requests and failures, so that Read returns the bytes at the
\* position Seek reported.
StreamStands == /\ rfile.r = "open" => rfile.pos = rfile.at
                /\ rfile.last.op = "read" => rfile.last.got = rfile.last.want

\* A Seek that succeeds has gone where it was sent.
SeekLands == rfile.last.op = "seek" /\ rfile.last.ok =>
               rfile.last.got = rfile.last.want

\* An error made of a message says what the message said, and is a "not found"
\* only if one of the two phrases is in it.
MessageKept ==
  rmsg.topic = "message" =>
    /\ rmsg.err.text = rmsg.msg
    /\ ~rmsg.err.found => {"find", "stored"} \cap ToSet(rmsg.msg) # {}

\* What the client hands over is what the server sent, to its end and from where
\* it was asked for, or an error that says why not.
RpcSafe == StreamReported /\ StreamStands /\ SeekLands /\ MessageKept
=============================================================================
