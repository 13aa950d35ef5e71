------------------------------ MODULE Download ------------------------------
(***************************************************************************)
(* The library's two HTTP requests: announceHttp (tracker/http-tracker.js) *)
(* and resolveTorrentFile (torrent-file.js).  Each fetches, reads a body   *)
(* it does not trust into memory up to a cap, and decodes it.  They share  *)
(* the reading loop and differ in what they refuse before it and in what   *)
(* they make of the body.                                                  *)
(*                                                                         *)
(* A step runs from one await to the next.  That the infohash and the peer *)
(* id are 20 bytes long is known: their callers have made them so.         *)
(***************************************************************************)
EXTENDS CompactPeers

CONSTANTS
  Cap,        \* MAX_RESPONSE_BYTES, or opts.maxBytes
  Sizes,      \* how long the bodies are that servers send
  Answers     \* what trackers put in them

ASSUME DownloadAssumption == Cap \in Nat /\ Sizes \subseteq Nat

(* A peer list in an answer: absent, compact or a list of dictionaries, of *)
(* the given peers; a damaged one has lost its last byte or one host.      *)
PeerList(Peer) ==
  [as : {"absent", "compact", "list"}, of : Seq(Peer), damaged : BOOLEAN]

(* A decoded body: nothing bencoded, no dictionary, or one.  A message is  *)
(* text or, where a text belongs, a number.  An interval is absent ({}) or *)
(* a number; 0 stands for all that is not a positive number.               *)
Message == {"absent", "text", "number"}

Answer ==
  [form : {"garbage", "notDict", "dict"}, failure : Message,
   warning : Message, interval : SUBSET Nat, minInterval : SUBSET Nat,
   peers : PeerList(Peer4), peers6 : PeerList(Peer6)]

ASSUME AnswersAssumption == Answers \subseteq Answer

(* A response: content-length is absent ({}, as is one that is no number)  *)
(* or a number that need not be the length of the body, which may be       *)
(* compressed.                                                             *)
Response ==
  [status : {"200", "other2xx", "error"}, hasBody : BOOLEAN,
   contentLength : {{}} \cup {{n} : n \in Sizes}, size : Sizes]

VARIABLES
  kind,      \* "announce" or "torrent"
  pc,        \* "idle", "fetching", "cancelling", "reading", "parsing", "done"
  response,  \* the set of the response it has: none or one
  body,      \* its body: "none", "open", or "closed" by its end, an error or us
  locked,    \* does the reader hold the body's lock?
  total,     \* bytes read
  buffered,  \* bytes kept in chunks
  result,    \* what it settles with, known once "cancelling", or "none"
  peers,     \* the peers of an announce
  interval,  \* its interval: {} for null
  answer,    \* environment: the set of what the body held, once decoded
  timedOut,  \* has AbortSignal.timeout fired?
  aborted    \* opts.signal.aborted, of the tracker client

vars == <<kind, pc, response, body, locked, total, buffered, result, peers,
          interval, answer, timedOut, aborted>>
bodyVars == <<body, locked, total, buffered>>
resultVars == <<result, peers, interval, answer>>
signals == <<timedOut, aborted>>

(* The errors made by the library itself, as TorrentResolveErrors ...      *)
OwnErrors == {"invalidUrl", "unreachable", "badStatus", "emptyBody", "tooLarge",
              "undecodable", "failureReason"}

(* ... and those of fetch and of the decoders, passed on as they are.      *)
ForeignErrors == {"readFailed", "badAnswer"}

TypeOK ==
  /\ kind \in {"announce", "torrent"}
  /\ pc \in {"idle", "fetching", "cancelling", "reading", "parsing", "done"}
  /\ response \subseteq Response
  /\ body \in {"none", "open", "closed"}
  /\ locked \in BOOLEAN
  /\ total \in Nat
  /\ buffered \in Nat
  /\ result \in {"none", "resolved"} \cup OwnErrors \cup ForeignErrors
  /\ answer \subseteq Answers
  /\ timedOut \in BOOLEAN
  /\ aborted \in BOOLEAN

Init ==
  /\ kind \in {"announce", "torrent"}
  /\ pc = "idle"
  /\ response = {}
  /\ body = "none"
  /\ locked = FALSE
  /\ total = 0
  /\ buffered = 0
  /\ result = "none"
  /\ peers = <<>>
  /\ interval = {}
  /\ answer = {}
  /\ timedOut = FALSE
  /\ aborted = FALSE

-----------------------------------------------------------------------------
(* The promise settles: with an error ...                                  *)
RejectWith(error) ==
  /\ pc' = "done"
  /\ result' = error
  /\ UNCHANGED <<peers, interval, answer>>

(* ... which is only thrown once the cancelled body has let go, if that is *)
(* what the code awaits first.                                             *)
CancelAndReject(error) ==
  /\ pc' = "cancelling"
  /\ result' = error
  /\ body' = "closed"
  /\ UNCHANGED <<peers, interval, answer>>

AnnounceUnheard ==                                                   \* mutant
  /\ kind = "announce"
  /\ pc' = "fetching"
  /\ UNCHANGED resultVars

(* announceHttp(url): fetch is called with both signals, and rejects at    *)
(* once if the client has been destroyed already.                          *)
AnnounceHttp ==
  /\ kind = "announce"
  /\ IF aborted
       THEN RejectWith("unreachable")
       ELSE pc' = "fetching" /\ UNCHANGED resultVars

(* resolveTorrentFile(url): an https: URL or nothing.                      *)
ResolveTorrentFile ==
  /\ kind = "torrent"
  /\ \/ RejectWith("invalidUrl")
     \/ pc' = "fetching" /\ UNCHANGED resultVars

Call ==
  /\ pc = "idle"
  /\ AnnounceHttp \/ ResolveTorrentFile
  /\ UNCHANGED <<kind, response, bodyVars, signals>>

(* fetch rejects: no such host, refused, reset.                            *)
FetchFails ==
  /\ pc = "fetching"
  /\ RejectWith("unreachable")
  /\ UNCHANGED <<kind, response, bodyVars, signals>>

(* The reading begins, with the reader's lock on the body.                 *)
StartReading ==
  /\ pc' = "reading"
  /\ body' = "open"
  /\ locked' = TRUE
  /\ UNCHANGED resultVars

(* What announceHttp does with a response: anything but a 200 is cancelled *)
(* and refused.                                                            *)
AnnounceResponse(r) ==
  \/ /\ r.status # "200"
     /\ IF r.hasBody
          THEN CancelAndReject("badStatus") /\ UNCHANGED locked
          ELSE RejectWith("badStatus") /\ UNCHANGED <<body, locked>>
  \/ r.status = "200" /\ ~ r.hasBody
       /\ RejectWith("emptyBody") /\ UNCHANGED <<body, locked>>
  \/ r.status = "200" /\ r.hasBody /\ StartReading

DeclaredTooLarge(r) == \E n \in r.contentLength : n > Cap

(* What downloadWithSizeCap does: an error response is refused with its    *)
(* body left as it is, and a body declared too large is cancelled unread.  *)
TorrentResponse(r) ==
  LET ok == r.status # "error"
  IN \/ ~ ok /\ RejectWith("badStatus")
          /\ body' = (IF r.hasBody THEN "open" ELSE "none") /\ UNCHANGED locked
     \/ ok /\ ~ r.hasBody /\ RejectWith("emptyBody") /\ UNCHANGED <<body, locked>>
     \/ ok /\ r.hasBody /\ DeclaredTooLarge(r) /\ CancelAndReject("tooLarge")
          /\ UNCHANGED locked
     \/ ok /\ r.hasBody /\ ~ DeclaredTooLarge(r) /\ StartReading

Respond(r) ==
  /\ pc = "fetching"
  /\ response' = {r}
  /\ IF kind = "announce" THEN AnnounceResponse(r) ELSE TorrentResponse(r)
  /\ UNCHANGED <<kind, total, buffered, signals>>

OverCapByOne(n) == n >= Cap                                          \* mutant

OverCap(n) == n > Cap

(* reader.read() gives the next n bytes.  The lock is held until a cancel  *)
(* has been awaited.                                                       *)
ReadChunk(n) ==
  /\ pc = "reading"
  /\ total' = total + n
  /\ IF OverCap(total')
       THEN CancelAndReject("tooLarge") /\ UNCHANGED buffered
       ELSE buffered' = total' /\ UNCHANGED <<pc, body, resultVars>>
  /\ UNCHANGED <<kind, response, locked, signals>>

(* The cancelled body has let go, or reported an error that is ignored.    *)
Cancelled ==
  /\ pc = "cancelling"
  /\ pc' = "done"
  /\ locked' = FALSE
  /\ UNCHANGED <<kind, response, body, total, buffered, resultVars, signals>>

ReleaseNothing == body' = "closed" /\ UNCHANGED locked               \* mutant

(* The finally block of the reading loop, at its end or on an error of it. *)
ReleaseLock == body' = "closed" /\ locked' = FALSE

(* read() rejects: the connection broke.  The error is passed on as it is. *)
ReadFails ==
  /\ pc = "reading"
  /\ ReleaseLock
  /\ RejectWith("readFailed")
  /\ UNCHANGED <<kind, response, total, buffered, signals>>

-----------------------------------------------------------------------------
(* decodePeers4, decodePeers6: the bytes of a compact list are decoded,    *)
(* the dictionaries of a list are taken one by one, and anything else is   *)
(* no peers.  What is damaged throws.                                      *)
Written(list, bytes) ==
  IF list.damaged /\ bytes # <<>> THEN SubSeq(bytes, 1, Len(bytes) - 1) ELSE bytes

Bytes4(list) == Written(list, EncodeCompactPeers4(list.of))
Bytes6(list) == Written(list, EncodeCompactPeers6(list.of))

Throws(list, width, bytes) ==
  \/ list.as = "compact" /\ ~ WholeEntries(width, bytes)
  \/ list.as = "list" /\ list.damaged /\ list.of # <<>>

DecodePeers4(list) ==
  CASE list.as = "compact" -> DecodeCompactPeers4(Bytes4(list))
    [] list.as = "list" -> list.of
    [] OTHER -> <<>>

DecodePeers6(list) ==
  CASE list.as = "compact" -> DecodeCompactPeers6(Bytes6(list))
    [] list.as = "list" -> list.of
    [] OTHER -> <<>>

(* data.interval ?? data['min interval'], if it is a positive number.      *)
IntervalOf(a) ==
  {n \in (IF a.interval # {} THEN a.interval ELSE a.minInterval) : n > 0}

PeersThrow(a) ==
  Throws(a.peers, 6, Bytes4(a.peers)) \/ Throws(a.peers6, 18, Bytes6(a.peers6))

(* What announceHttp makes of a body, in the order of its checks.  Reading *)
(* a number as text throws; a warning that is text changes nothing.        *)
Verdict(a) ==
  CASE a.form # "dict" -> "undecodable"
    [] a.form = "dict" /\ a.failure = "text" -> "failureReason"
    [] a.form = "dict" /\ a.failure = "number" -> "badAnswer"
    [] a.form = "dict" /\ a.failure = "absent" ->
         IF a.warning = "number" \/ PeersThrow(a) THEN "badAnswer" ELSE "resolved"

DecodeAnswer(a) ==
  /\ pc' = "done"
  /\ answer' = {a}
  /\ result' = Verdict(a)
  /\ IF Verdict(a) = "resolved"
       THEN /\ peers' = DecodePeers4(a.peers) \o DecodePeers6(a.peers6)
            /\ interval' = IntervalOf(a)
       ELSE UNCHANGED <<peers, interval>>

ReadEndsEarly ==                                                     \* mutant
  /\ pc = "reading"
  /\ ReleaseLock
  /\ IF kind = "announce"
       THEN \E a \in Answers : (total = 0 => a.form # "dict") /\ DecodeAnswer(a)
       ELSE pc' = "parsing" /\ UNCHANGED resultVars
  /\ UNCHANGED <<kind, response, total, buffered, signals>>

(* read() says done: the chunks are put together and, by announceHttp,     *)
(* decoded in the same step.  Nothing is no dictionary.                    *)
ReadEnds ==
  /\ pc = "reading"
  /\ \E r \in response : total = r.size
  /\ ReleaseLock
  /\ IF kind = "announce"
       THEN \E a \in Answers : (total = 0 => a.form # "dict") /\ DecodeAnswer(a)
       ELSE pc' = "parsing" /\ UNCHANGED resultVars
  /\ UNCHANGED <<kind, response, total, buffered, signals>>

(* parseTorrent settles, and the record is made of what it found.          *)
Parsed ==
  /\ pc = "parsing"
  /\ pc' = "done"
  /\ result' \in {"resolved", "undecodable"}
  /\ total = 0 => result' = "undecodable"
  /\ UNCHANGED <<kind, response, bodyVars, peers, interval, answer, signals>>

-----------------------------------------------------------------------------
InterruptedRaw ==                                                    \* mutant
  \/ pc \in {"fetching", "reading"} /\ ReleaseLock /\ RejectWith("readFailed")
  \/ /\ pc \notin {"fetching", "reading"}
     /\ body' = IF body = "open" THEN "closed" ELSE body
     /\ UNCHANGED <<pc, resultVars, locked>>

InterruptedReaderOnly ==                                             \* mutant
  \/ pc = "fetching" /\ RejectWith("unreachable") /\ UNCHANGED <<body, locked>>
  \/ pc = "reading" /\ ReleaseLock /\ RejectWith("readFailed")
  \/ pc \notin {"fetching", "reading"} /\ UNCHANGED <<pc, resultVars, body, locked>>

(* A signal fires: fetch rejects, or the body is broken under the reader,  *)
(* or under nobody if it was left open.  Whoever cancels or parses has no  *)
(* use for the signal any more.                                            *)
Interrupted ==
  \/ pc = "fetching" /\ RejectWith("unreachable") /\ UNCHANGED <<body, locked>>
  \/ pc = "reading" /\ ReleaseLock /\ RejectWith("readFailed")
  \/ /\ pc \notin {"fetching", "reading"}
     /\ body' = IF body = "open" THEN "closed" ELSE body
     /\ UNCHANGED <<pc, resultVars, locked>>

TimeoutFires ==
  /\ pc # "idle"
  /\ ~ timedOut
  /\ timedOut' = TRUE
  /\ Interrupted
  /\ UNCHANGED <<kind, response, total, buffered, aborted>>

(* The tracker client is destroyed.                                        *)
Abort ==
  /\ kind = "announce"
  /\ ~ aborted
  /\ aborted' = TRUE
  /\ Interrupted
  /\ UNCHANGED <<kind, response, total, buffered, timedOut>>

Next ==
  \/ Call
  \/ FetchFails
  \/ \E r \in Response : Respond(r)
  \/ \E r \in response : \E n \in 1 .. r.size - total : ReadChunk(n)
  \/ Cancelled
  \/ ReadFails
  \/ ReadEnds
  \/ Parsed
  \/ TimeoutFires
  \/ Abort

Spec == Init /\ [][Next]_vars

(* The timeout's timer fires, a cancelled body lets go and parseTorrent    *)
(* settles.  Nothing is assumed of the server: it may never send anything. *)
Fairness ==
  /\ WF_vars(TimeoutFires)
  /\ WF_vars(Cancelled)
  /\ WF_vars(Parsed)

FairSpec == Spec /\ Fairness

-----------------------------------------------------------------------------
(* "Caps the amount of untrusted data buffered into memory": what is kept  *)
(* never exceeds the cap, whatever content-length said, and a body of the  *)
(* cap's very size is not refused for it.                                  *)
CapExact ==
  /\ buffered <= Cap
  /\ result = "tooLarge" => \E r \in response : r.size > Cap \/ DeclaredTooLarge(r)

(* No verdict on the content of a body is passed before all is there.      *)
VerdictOnWholeBody ==
  pc = "parsing" \/ answer # {} => \E r \in response : r.hasBody /\ buffered = r.size

(* No request outlives its signals: nothing is fetched or read any more    *)
(* once one has fired, not even for an announce that was begun afterwards. *)
SignalHeard == timedOut \/ aborted => pc \notin {"fetching", "reading"}

(* What fails before a body is read fails with the library's own error.    *)
(* errors.js promises it of "all failures"; it is not so afterwards.       *)
OwnErrorBeforeBody ==
  result \in ForeignErrors => body = "closed" /\ \E r \in response : r.hasBody

(* The peers of an announce are those the tracker has put in its answer,   *)
(* in its order, from both lists and in either form; an answer with a      *)
(* damaged list is no answer.                                              *)
Meant(list) == IF list.as = "absent" THEN <<>> ELSE list.of

PeersAsAnswered ==
  result = "resolved" /\ kind = "announce" =>
    \E a \in answer :
      /\ peers = Meant(a.peers) \o Meant(a.peers6)
      /\ \A list \in {a.peers, a.peers6} : list.damaged => Meant(list) = <<>>

(* Every request settles and its body is let go, even one that was refused *)
(* and left open, although the server may never send anything.             *)
SettlesReleased == pc # "idle" ~> (pc = "done" /\ body # "open")

(* A request is a scoped call, but for the body of an error response that  *)
(* downloadWithSizeCap leaves to the timeout.                              *)
Abandoned == kind = "torrent" /\ \E r \in response : r.status = "error"

Requesting == {"request"}

Status ==
  [q \in Requesting |->
     CASE pc = "idle" -> "idle"
       [] pc = "done" -> (IF result = "resolved" THEN "resolved" ELSE "rejected")
       [] OTHER -> "running"]

Holdings ==
  [q \in Requesting |->
     (IF body = "open" /\ ~ Abandoned THEN {"body"} ELSE {})
       \cup (IF locked THEN {"reader"} ELSE {})]

Scoped == INSTANCE ScopedCalls WITH
            Calls <- Requesting,
            Resources <- {"body", "reader"},
            status <- Status,
            held <- Holdings

ImplementsScopedCalls == Scoped!Spec

=============================================================================
