--------------------------- MODULE Download_proofs ---------------------------
(***************************************************************************)
(* Theorems about Download for any cap, any sizes of bodies and any        *)
(* answers: the decoders undo the encoding of BEP 23 and BEP 7, the cap is *)
(* exact, and a request is a scoped call.                                  *)
(***************************************************************************)
EXTENDS Download, TLAPS

(* Before there is a response there is nothing.                            *)
NothingYet ==
  /\ pc = "idle" => ~ timedOut
  /\ pc \in {"idle", "fetching"} =>
       /\ response = {} /\ body = "none" /\ locked = FALSE
       /\ total = 0 /\ buffered = 0
       /\ result = "none" /\ answer = {}

(* What is being read is the one body there is, and all of it is kept.     *)
ReadsOne ==
  pc = "reading" =>
    /\ body = "open" /\ locked = TRUE
    /\ result = "none" /\ answer = {}
    /\ buffered = total
    /\ \E r \in Response :
         /\ response = {r}
         /\ r.hasBody /\ total <= r.size
         /\ kind = "torrent" => r.status # "error"

(* Whoever has stopped reading has closed the body, unless it left an      *)
(* error response unread, and holds the lock only while it cancels.        *)
LetGo ==
  /\ pc = "parsing" =>
       /\ kind = "torrent" /\ body = "closed" /\ locked = FALSE
       /\ result = "none" /\ answer = {}
  /\ pc = "cancelling" =>
       body = "closed" /\ result \in {"badStatus", "tooLarge"} /\ answer = {}
  /\ pc = "done" =>
       locked = FALSE /\ result # "none" /\ (body = "open" => Abandoned)

(* Peers come out of an answer in which nothing throws.                    *)
Resolved ==
  result = "resolved" /\ kind = "announce" =>
    \E a \in Answers :
      /\ answer = {a}
      /\ Verdict(a) = "resolved"
      /\ peers = DecodePeers4(a.peers) \o DecodePeers6(a.peers6)

(* resolveTorrentFile has no signal of its caller.                         *)
NoAbortOfTorrent == kind = "torrent" => ~ aborted

IInv ==
  /\ TypeOK
  /\ NothingYet
  /\ ReadsOne
  /\ LetGo
  /\ Resolved
  /\ NoAbortOfTorrent
  /\ CapExact
  /\ VerdictOnWholeBody
  /\ SignalHeard
  /\ OwnErrorBeforeBody

USE DEF bodyVars, resultVars, signals, OwnErrors, ForeignErrors

-----------------------------------------------------------------------------
(* The two bytes of a word make it up again.                               *)
LEMMA WordOfBytes ==
  ASSUME NEW w \in Uint16
  PROVE  Word(High(w), Low(w)) = w
  BY DEF Word, High, Low, Uint16

(* Where byte b of entry i is, and back.                                   *)
LEMMA Place ==
  ASSUME NEW width \in {6, 18}, NEW i \in Nat \ {0}, NEW b \in 1 .. width
  PROVE  /\ ((width * (i - 1) + b - 1) \div width) + 1 = i
         /\ ((width * (i - 1) + b - 1) % width) + 1 = b
  <1>1. CASE width = 6
    BY <1>1
  <1>2. CASE width = 18
    BY <1>2
  <1> QED
    BY <1>1, <1>2

(* The decoders undo the encoding, whatever the peers and their number.    *)
LEMMA RoundTrip4 ==
  ASSUME NEW ps \in Seq(Peer4)
  PROVE  /\ Len(EncodeCompactPeers4(ps)) = 6 * Len(ps)
         /\ DecodeCompactPeers4(EncodeCompactPeers4(ps)) = ps
  <1> DEFINE buf == EncodeCompactPeers4(ps)
             n == Len(ps)
             D == DecodeCompactPeers4(buf)
  <1>1. n \in Nat /\ Len(buf) = 6 * n
    BY DEF EncodeCompactPeers4
  <1>2. ASSUME NEW i \in 1 .. n
        PROVE  [host |-> [b \in 1 .. 4 |-> buf[6 * (i - 1) + b]],
                port |-> Word(buf[6 * (i - 1) + 5], buf[6 * (i - 1) + 6])] = ps[i]
    <2>1. ps[i] \in Peer4
      BY <1>1
    <2>2. ASSUME NEW b \in 1 .. 6
          PROVE  buf[6 * (i - 1) + b] = ByteOf4(ps[i], b)
      <3>1. 6 * (i - 1) + b \in 1 .. 6 * n
        BY <1>1
      <3>2. /\ ((6 * (i - 1) + b - 1) \div 6) + 1 = i
            /\ ((6 * (i - 1) + b - 1) % 6) + 1 = b
        BY <1>1, Place
      <3> QED
        BY <3>1, <3>2 DEF EncodeCompactPeers4
    <2> HIDE DEF buf
    <2>3. \A b \in 1 .. 4 : buf[6 * (i - 1) + b] = ps[i].host[b]
      BY <2>2 DEF ByteOf4
    <2>4. /\ buf[6 * (i - 1) + 5] = High(ps[i].port)
          /\ buf[6 * (i - 1) + 6] = Low(ps[i].port)
      BY <2>2 DEF ByteOf4
    <2>5. Word(buf[6 * (i - 1) + 5], buf[6 * (i - 1) + 6]) = ps[i].port
      BY <2>1, <2>4, WordOfBytes DEF Peer4
    <2>6. [b \in 1 .. 4 |-> buf[6 * (i - 1) + b]] = ps[i].host
      BY <2>1, <2>3 DEF Peer4
    <2> QED
      BY <2>1, <2>5, <2>6 DEF Peer4
  <1>3. D = [i \in 1 .. n |-> ps[i]]
    <2>1. Len(buf) \div 6 = n
      BY <1>1
    <2> QED BY <1>2, <2>1 DEF DecodeCompactPeers4
  <1> QED
    BY <1>1, <1>3

(* And those of the list of IPv6 peers.                                    *)
LEMMA RoundTrip6 ==
  ASSUME NEW ps \in Seq(Peer6)
  PROVE  /\ Len(EncodeCompactPeers6(ps)) = 18 * Len(ps)
         /\ DecodeCompactPeers6(EncodeCompactPeers6(ps)) = ps
  <1> DEFINE buf == EncodeCompactPeers6(ps)
             n == Len(ps)
             D == DecodeCompactPeers6(buf)
  <1>1. n \in Nat /\ Len(buf) = 18 * n
    BY DEF EncodeCompactPeers6
  <1>2. ASSUME NEW i \in 1 .. n
        PROVE  [host |-> [g \in 1 .. 8 |->
                            Word(buf[18 * (i - 1) + 2 * g - 1], buf[18 * (i - 1) + 2 * g])],
                port |-> Word(buf[18 * (i - 1) + 17], buf[18 * (i - 1) + 18])] = ps[i]
    <2>1. ps[i] \in Peer6
      BY <1>1
    <2>2. ASSUME NEW b \in 1 .. 18
          PROVE  buf[18 * (i - 1) + b] = ByteOf6(ps[i], b)
      <3>1. 18 * (i - 1) + b \in 1 .. 18 * n
        BY <1>1
      <3>2. /\ ((18 * (i - 1) + b - 1) \div 18) + 1 = i
            /\ ((18 * (i - 1) + b - 1) % 18) + 1 = b
        BY <1>1, Place
      <3> QED
        BY <3>1, <3>2 DEF EncodeCompactPeers6
    <2> HIDE DEF buf
    <2>3. ASSUME NEW g \in 1 .. 8
          PROVE  Word(buf[18 * (i - 1) + 2 * g - 1], buf[18 * (i - 1) + 2 * g])
                   = ps[i].host[g]
      <3>1. /\ buf[18 * (i - 1) + (2 * g - 1)] = ByteOf6(ps[i], 2 * g - 1)
            /\ buf[18 * (i - 1) + 2 * g] = ByteOf6(ps[i], 2 * g)
        <4>1. 2 * g - 1 \in 1 .. 18 /\ 2 * g \in 1 .. 18
          OBVIOUS
        <4> QED
          BY <2>2, <4>1
      <3>2. /\ ByteOf6(ps[i], 2 * g - 1) = High(ps[i].host[g])
            /\ ByteOf6(ps[i], 2 * g) = Low(ps[i].host[g])
        <4>1. /\ 2 * g - 1 <= 16 /\ (2 * g - 1 + 1) \div 2 = g /\ (2 * g - 1) % 2 = 1
              /\ 2 * g <= 16 /\ (2 * g + 1) \div 2 = g /\ (2 * g) % 2 # 1
          OBVIOUS
        <4> QED
          BY <4>1 DEF ByteOf6
      <3>3. ps[i].host[g] \in Uint16
        BY <2>1 DEF Peer6
      <3>4. 18 * (i - 1) + 2 * g - 1 = 18 * (i - 1) + (2 * g - 1)
        OBVIOUS
      <3> QED
        BY <3>1, <3>2, <3>3, <3>4, WordOfBytes
    <2>4. Word(buf[18 * (i - 1) + 17], buf[18 * (i - 1) + 18]) = ps[i].port
      <3>1. /\ buf[18 * (i - 1) + 17] = High(ps[i].port)
            /\ buf[18 * (i - 1) + 18] = Low(ps[i].port)
        BY <2>2 DEF ByteOf6
      <3> QED
        BY <2>1, <3>1, WordOfBytes DEF Peer6
    <2>5. [g \in 1 .. 8 |->
             Word(buf[18 * (i - 1) + 2 * g - 1], buf[18 * (i - 1) + 2 * g])] = ps[i].host
      BY <2>1, <2>3 DEF Peer6
    <2> QED
      BY <2>1, <2>4, <2>5 DEF Peer6
  <1>3. D = [i \in 1 .. n |-> ps[i]]
    <2>1. Len(buf) \div 18 = n
      BY <1>1
    <2> QED
      BY <1>2, <2>1 DEF DecodeCompactPeers6
  <1> QED
    BY <1>1, <1>3

(* A sequence that loses its last element is one shorter.                  *)
LEMMA Truncated ==
  ASSUME NEW n \in Nat, NEW s, s = [k \in 1 .. n |-> s[k]], s # <<>>
  PROVE  n > 0 /\ Len(SubSeq(s, 1, Len(s) - 1)) = n - 1
  <1> DEFINE S == {s[k] : k \in 1 .. n}
  <1>1. s \in Seq(S) /\ Len(s) = n
    OBVIOUS
  <1>2. n # 0
    BY <1>1
  <1> HIDE DEF S
  <1> QED
    BY <1>1, <1>2

(* Nothing whole is left of a compact list that is damaged.                *)
LEMMA DamagedThrows ==
  ASSUME NEW width \in {6, 18}, NEW n \in Nat,
         NEW bytes, bytes = [k \in 1 .. width * n |-> bytes[k]],
         NEW list, list.damaged,
         WholeEntries(width, Written(list, bytes))
  PROVE  n = 0 /\ Written(list, bytes) = bytes
  <1>1. CASE bytes # <<>>
    <2>1. /\ width * n > 0
          /\ Len(SubSeq(bytes, 1, Len(bytes) - 1)) = width * n - 1
      <3>1. width * n \in Nat
        OBVIOUS
      <3> QED
        BY <1>1, <3>1, Truncated
    <2>2. (width * n - 1) % width = 0
      BY <1>1, <2>1 DEF Written, WholeEntries
    <2> QED
      BY <2>2
  <1>2. CASE bytes = <<>>
    <2>1. width * n \in Nat /\ Len(bytes) = width * n
      OBVIOUS
    <2> QED
      BY <1>2, <2>1 DEF Written
  <1> QED
    BY <1>1, <1>2

(* A list that throws nothing is decoded to the peers that were meant.     *)
LEMMA ListAsMeant ==
  ASSUME NEW a \in Answer, Verdict(a) = "resolved"
  PROVE  /\ DecodePeers4(a.peers) = Meant(a.peers)
         /\ DecodePeers6(a.peers6) = Meant(a.peers6)
         /\ \A list \in {a.peers, a.peers6} : list.damaged => Meant(list) = <<>>
  <1> DEFINE l == a.peers
             k == a.peers6
  <1>1. /\ l \in PeerList(Peer4) /\ k \in PeerList(Peer6)
        /\ a.form \in {"garbage", "notDict", "dict"} /\ a.failure \in Message
    BY DEF Answer
  <1>2. ~ Throws(l, 6, Bytes4(l)) /\ ~ Throws(k, 18, Bytes6(k))
    BY <1>1 DEF Verdict, PeersThrow, Message
  <1>3. /\ l.of \in Seq(Peer4) /\ l.as \in {"absent", "compact", "list"}
        /\ k.of \in Seq(Peer6) /\ k.as \in {"absent", "compact", "list"}
    BY <1>1 DEF PeerList
  <1> HIDE DEF l, k
  <1>4. ASSUME l.as = "compact"
        PROVE  Bytes4(l) = EncodeCompactPeers4(l.of) /\ (l.damaged => l.of = <<>>)
    <2> DEFINE bytes == EncodeCompactPeers4(l.of)
    <2>1. bytes = [i \in 1 .. 6 * Len(l.of) |-> bytes[i]] /\ Len(l.of) \in Nat
      BY <1>3 DEF EncodeCompactPeers4
    <2>2. WholeEntries(6, Written(l, bytes))
      BY <1>2, <1>4 DEF Throws, Bytes4
    <2> HIDE DEF bytes
    <2>3. CASE l.damaged
      <3>1. Len(l.of) = 0 /\ Written(l, bytes) = bytes
        BY <2>1, <2>2, <2>3, DamagedThrows
      <3> QED
        BY <1>3, <3>1 DEF Bytes4, bytes
    <2>4. CASE ~ l.damaged
      BY <2>4 DEF Bytes4, Written, bytes
    <2> QED
      BY <2>3, <2>4
  <1>5. ASSUME k.as = "compact"
        PROVE  Bytes6(k) = EncodeCompactPeers6(k.of) /\ (k.damaged => k.of = <<>>)
    <2> DEFINE bytes == EncodeCompactPeers6(k.of)
    <2>1. bytes = [i \in 1 .. 18 * Len(k.of) |-> bytes[i]] /\ Len(k.of) \in Nat
      BY <1>3 DEF EncodeCompactPeers6
    <2>2. WholeEntries(18, Written(k, bytes))
      BY <1>2, <1>5 DEF Throws, Bytes6
    <2> HIDE DEF bytes
    <2>3. CASE k.damaged
      <3>1. Len(k.of) = 0 /\ Written(k, bytes) = bytes
        BY <2>1, <2>2, <2>3, DamagedThrows
      <3> QED
        BY <1>3, <3>1 DEF Bytes6, bytes
    <2>4. CASE ~ k.damaged
      BY <2>4 DEF Bytes6, Written, bytes
    <2> QED
      BY <2>3, <2>4
  <1>6. DecodePeers4(l) = Meant(l) /\ (l.damaged => Meant(l) = <<>>)
    <2>1. CASE l.as = "compact"
      BY <1>3, <1>4, <2>1, RoundTrip4 DEF DecodePeers4, Meant
    <2>2. CASE l.as \in {"absent", "list"}
      BY <1>2, <2>2 DEF DecodePeers4, Meant, Throws
    <2> QED
      BY <1>3, <2>1, <2>2
  <1>7. DecodePeers6(k) = Meant(k) /\ (k.damaged => Meant(k) = <<>>)
    <2>1. CASE k.as = "compact"
      BY <1>3, <1>5, <2>1, RoundTrip6 DEF DecodePeers6, Meant
    <2>2. CASE k.as \in {"absent", "list"}
      BY <1>2, <2>2 DEF DecodePeers6, Meant, Throws
    <2> QED
      BY <1>3, <2>1, <2>2
  <1> QED
    BY <1>6, <1>7 DEF l, k

-----------------------------------------------------------------------------
LEMMA InitInv == Init => IInv
  <1> SUFFICES ASSUME Init
               PROVE  IInv
    OBVIOUS
  <1> USE DEF Init
  <1>1. TypeOK /\ NothingYet /\ ReadsOne /\ LetGo /\ Resolved /\ NoAbortOfTorrent
    BY DEF TypeOK, NothingYet, ReadsOne, LetGo, Resolved, NoAbortOfTorrent
  <1>2. CapExact /\ VerdictOnWholeBody /\ SignalHeard /\ OwnErrorBeforeBody
    BY DownloadAssumption
    DEF CapExact, VerdictOnWholeBody, SignalHeard, OwnErrorBeforeBody
  <1> QED
    BY <1>1, <1>2 DEF IInv

(* The request is made, or refused.                                        *)
LEMMA CallInv ==
  ASSUME IInv, Call \/ FetchFails
  PROVE  IInv'
  <1>1. pc \in {"idle", "fetching"}
    BY DEF Call, FetchFails
  <1>2. /\ response = {} /\ body = "none" /\ locked = FALSE /\ total = 0 /\ buffered = 0
        /\ result = "none" /\ answer = {} /\ ~ timedOut
    BY <1>1 DEF IInv, NothingYet, SignalHeard
  <1>3. UNCHANGED <<kind, response, body, locked, total, buffered, answer,
                    timedOut, aborted>>
    BY DEF Call, AnnounceHttp, ResolveTorrentFile, FetchFails, RejectWith
  <1>4. \/ pc' = "fetching" /\ result' = "none" /\ ~ aborted
        \/ pc' = "done" /\ result' \in {"invalidUrl", "unreachable"}
    BY <1>2 DEF Call, AnnounceHttp, ResolveTorrentFile, FetchFails, RejectWith,
                IInv, NoAbortOfTorrent
  <1>5. TypeOK' /\ NothingYet' /\ ReadsOne' /\ LetGo' /\ Resolved' /\ NoAbortOfTorrent'
    BY <1>2, <1>3, <1>4 
    DEF IInv, TypeOK, NothingYet, ReadsOne, LetGo, Resolved, NoAbortOfTorrent
  <1>6. CapExact' /\ VerdictOnWholeBody' /\ SignalHeard' /\ OwnErrorBeforeBody'
    BY <1>2, <1>3, <1>4
    DEF IInv, CapExact, VerdictOnWholeBody, SignalHeard, OwnErrorBeforeBody
  <1> QED
    BY <1>5, <1>6 DEF IInv

(* A response is refused, or its body is read.                             *)
LEMMA RespondInv ==
  ASSUME IInv, NEW r \in Response, Respond(r)
  PROVE  IInv'
  <1> USE DEF Respond
  <1>1. /\ response = {} /\ body = "none" /\ locked = FALSE /\ total = 0 /\ buffered = 0
        /\ result = "none" /\ answer = {} /\ ~ timedOut /\ ~ aborted
    BY DEF IInv, NothingYet, SignalHeard
  <1>2. r.size \in Nat /\ r.hasBody \in BOOLEAN
    BY DownloadAssumption DEF Response
  <1>3. UNCHANGED <<kind, total, buffered, timedOut, aborted, answer>> /\ response' = {r}
    BY DEF AnnounceResponse, TorrentResponse, StartReading, RejectWith, CancelAndReject
  <1>4. \/ /\ pc' = "reading" /\ body' = "open" /\ locked' = TRUE /\ result' = "none"
           /\ r.hasBody /\ (kind = "torrent" => r.status # "error")
        \/ /\ pc' = "cancelling" /\ body' = "closed" /\ locked' = FALSE
           /\ \/ result' = "badStatus"
              \/ result' = "tooLarge" /\ DeclaredTooLarge(r)
        \/ /\ pc' = "done" /\ result' \in {"badStatus", "emptyBody"} /\ locked' = FALSE
           /\ \/ body' = "none"
              \/ body' = "open" /\ kind = "torrent" /\ r.status = "error"
    <2>1. CASE kind = "announce"
      BY <1>1, <2>1 DEF AnnounceResponse, StartReading, RejectWith, CancelAndReject
    <2>2. CASE kind # "announce"
      BY <1>1, <2>2 DEF TorrentResponse, StartReading, RejectWith, CancelAndReject,
                        IInv, TypeOK
    <2> QED
      BY <2>1, <2>2
  <1> HIDE DEF Respond
  <1>5. TypeOK' /\ NothingYet' /\ Resolved' /\ NoAbortOfTorrent'
    BY <1>1, <1>3, <1>4 DEF IInv, TypeOK, NothingYet, Resolved, NoAbortOfTorrent
  <1>6. ReadsOne' /\ LetGo'
    BY <1>1, <1>2, <1>3, <1>4 DEF ReadsOne, LetGo, Abandoned
  <1>7. CapExact' /\ VerdictOnWholeBody' /\ SignalHeard' /\ OwnErrorBeforeBody'
    BY <1>1, <1>3, <1>4
    DEF IInv, CapExact, VerdictOnWholeBody, SignalHeard, OwnErrorBeforeBody
  <1> QED
    BY <1>5, <1>6, <1>7 DEF IInv

(* A chunk is kept, or too much.                                           *)
LEMMA ChunkInv ==
  ASSUME IInv, NEW r \in response, NEW n \in 1 .. r.size - total, ReadChunk(n)
  PROVE  IInv'
  <1> USE DEF ReadChunk, OverCap
  <1>1. /\ pc = "reading" /\ body = "open" /\ locked = TRUE
        /\ result = "none" /\ answer = {} /\ buffered = total
        /\ response = {r} /\ r \in Response /\ r.hasBody /\ total <= r.size
        /\ kind = "torrent" => r.status # "error"
    BY DEF IInv, ReadsOne
  <1>2. total \in Nat /\ r.size \in Nat /\ n \in Nat /\ Cap \in Nat /\ total + n <= r.size
    <2>1. total \in Nat /\ r.size \in Nat /\ Cap \in Nat
      BY <1>1, DownloadAssumption DEF IInv, TypeOK, Response
    <2> QED
      BY <2>1
  <1>3. ~ timedOut /\ ~ aborted
    BY <1>1 DEF IInv, SignalHeard
  <1>4. /\ UNCHANGED <<kind, response, locked, answer, timedOut, aborted>>
        /\ total' = total + n
    BY DEF CancelAndReject
  <1>5. \/ /\ total' <= Cap /\ buffered' = total' /\ UNCHANGED <<pc, body, result>>
        \/ /\ r.size > Cap /\ buffered' = buffered
           /\ pc' = "cancelling" /\ body' = "closed" /\ result' = "tooLarge"
    <2>1. CASE total + n > Cap
      BY <1>2, <2>1 DEF CancelAndReject
    <2>2. CASE ~ (total + n > Cap)
      BY <1>2, <2>2
    <2> QED
      BY <2>1, <2>2
  <1> HIDE DEF ReadChunk
  <1>6. TypeOK' /\ NothingYet' /\ Resolved' /\ NoAbortOfTorrent'
    BY <1>1, <1>2, <1>4, <1>5 DEF IInv, TypeOK, NothingYet, Resolved, NoAbortOfTorrent
  <1>7. ReadsOne' /\ LetGo'
    BY <1>1, <1>2, <1>4, <1>5 DEF ReadsOne, LetGo, Abandoned
  <1>8. CapExact' /\ VerdictOnWholeBody' /\ SignalHeard' /\ OwnErrorBeforeBody'
    BY <1>1, <1>2, <1>3, <1>4, <1>5
    DEF IInv, CapExact, VerdictOnWholeBody, SignalHeard, OwnErrorBeforeBody
  <1> QED
    BY <1>6, <1>7, <1>8 DEF IInv

(* A body that was cancelled has let go.                                   *)
LEMMA CancelledInv == IInv /\ Cancelled => IInv'
  <1> SUFFICES ASSUME IInv, Cancelled
               PROVE  IInv'
    OBVIOUS
  <1>1. /\ pc = "cancelling" /\ pc' = "done" /\ locked' = FALSE
        /\ body = "closed" /\ result \in {"badStatus", "tooLarge"} /\ answer = {}
        /\ UNCHANGED <<kind, response, body, total, buffered, result, answer,
                       timedOut, aborted>>
    BY DEF Cancelled, IInv, LetGo
  <1>2. TypeOK' /\ NothingYet' /\ ReadsOne' /\ LetGo' /\ Resolved' /\ NoAbortOfTorrent'
    BY <1>1 DEF IInv, TypeOK, NothingYet, ReadsOne, LetGo, Resolved, NoAbortOfTorrent
  <1>3. CapExact' /\ VerdictOnWholeBody' /\ SignalHeard' /\ OwnErrorBeforeBody'
    BY <1>1 DEF IInv, CapExact, DeclaredTooLarge, VerdictOnWholeBody, SignalHeard,
                OwnErrorBeforeBody
  <1> QED
    BY <1>2, <1>3 DEF IInv

(* The reading breaks off.                                                 *)
LEMMA BreaksOff ==
  ASSUME IInv, pc = "reading", ReleaseLock, RejectWith("readFailed"),
         UNCHANGED <<kind, response, total, buffered>>,
         timedOut' \in BOOLEAN, aborted' \in BOOLEAN,
         kind = "torrent" => ~ aborted'
  PROVE  IInv'
  <1>1. /\ result = "none" /\ answer = {}
        /\ \E r \in response : r.hasBody
        /\ pc' = "done" /\ result' = "readFailed" /\ UNCHANGED answer
        /\ body' = "closed" /\ locked' = FALSE
    BY DEF IInv, ReadsOne, ReleaseLock, RejectWith
  <1>2. TypeOK' /\ NothingYet' /\ ReadsOne' /\ LetGo' /\ Resolved' /\ NoAbortOfTorrent'
    BY <1>1 DEF IInv, TypeOK, NothingYet, ReadsOne, LetGo, Resolved, NoAbortOfTorrent
  <1>3. CapExact' /\ VerdictOnWholeBody' /\ SignalHeard' /\ OwnErrorBeforeBody'
    BY <1>1 DEF IInv, CapExact, DeclaredTooLarge, VerdictOnWholeBody, SignalHeard,
                OwnErrorBeforeBody
  <1> QED
    BY <1>2, <1>3 DEF IInv

(* All of the body has been read, and is decoded or goes to the parser.    *)
LEMMA ReadEndsInv == IInv /\ ReadEnds => IInv'
  <1> SUFFICES ASSUME IInv, ReadEnds
               PROVE  IInv'
    OBVIOUS
  <1>1. PICK r \in response : total = r.size
    BY DEF ReadEnds
  <1>2. /\ pc = "reading" /\ result = "none" /\ answer = {} /\ buffered = total
        /\ r.hasBody /\ buffered = r.size /\ ~ timedOut /\ ~ aborted
        /\ body' = "closed" /\ locked' = FALSE
        /\ UNCHANGED <<kind, response, total, buffered, timedOut, aborted>>
    BY DEF IInv, ReadsOne, SignalHeard, ReadEnds, ReleaseLock
  <1>3. \/ /\ kind = "torrent" /\ pc' = "parsing" /\ result' = "none" /\ answer' = {}
        \/ /\ kind = "announce" /\ pc' = "done"
           /\ \E a \in Answers :
                /\ answer' = {a} /\ result' = Verdict(a)
                /\ result' = "resolved" =>
                     peers' = DecodePeers4(a.peers) \o DecodePeers6(a.peers6)
    <2>1. CASE kind = "announce"
      BY <2>1 DEF ReadEnds, DecodeAnswer
    <2>2. CASE kind # "announce"
      BY <1>2, <2>2 DEF ReadEnds, IInv, TypeOK
    <2> QED
      BY <2>1, <2>2
  <1>4. \A a \in Answers :
          Verdict(a) \in {"undecodable", "failureReason", "badAnswer", "resolved"}
    BY AnswersAssumption DEF Verdict, Answer, Message
  <1>5. TypeOK' /\ NothingYet' /\ ReadsOne' /\ NoAbortOfTorrent'
    BY <1>2, <1>3, <1>4 DEF IInv, TypeOK, NothingYet, ReadsOne, NoAbortOfTorrent
  <1>6. LetGo'
    BY <1>2, <1>3, <1>4 DEF LetGo
  <1>7. Resolved'
    BY <1>2, <1>3 DEF Resolved
  <1>8. CapExact' /\ VerdictOnWholeBody' /\ SignalHeard' /\ OwnErrorBeforeBody'
    BY <1>2, <1>3, <1>4
    DEF IInv, CapExact, DeclaredTooLarge, VerdictOnWholeBody, SignalHeard,
        OwnErrorBeforeBody
  <1> QED
    BY <1>5, <1>6, <1>7, <1>8 DEF IInv

LEMMA ParsedInv == IInv /\ Parsed => IInv'
  <1> SUFFICES ASSUME IInv, Parsed
               PROVE  IInv'
    OBVIOUS
  <1>1. /\ pc = "parsing" /\ kind = "torrent" /\ body = "closed" /\ locked = FALSE
        /\ pc' = "done" /\ result' \in {"resolved", "undecodable"} /\ answer = {}
        /\ UNCHANGED <<kind, response, body, locked, total, buffered, answer,
                       timedOut, aborted>>
    BY DEF IInv, LetGo, Parsed
  <1>2. TypeOK' /\ NothingYet' /\ ReadsOne' /\ LetGo' /\ Resolved' /\ NoAbortOfTorrent'
    BY <1>1 DEF IInv, TypeOK, NothingYet, ReadsOne, LetGo, Resolved, NoAbortOfTorrent
  <1>3. CapExact' /\ VerdictOnWholeBody' /\ SignalHeard' /\ OwnErrorBeforeBody'
    BY <1>1 DEF IInv, CapExact, DeclaredTooLarge, VerdictOnWholeBody, SignalHeard,
                OwnErrorBeforeBody
  <1> QED
    BY <1>2, <1>3 DEF IInv

(* The timeout or the abort, wherever it strikes.                          *)
LEMMA InterruptedInv ==
  ASSUME IInv, TimeoutFires \/ Abort
  PROVE  IInv'
  <1>1. /\ UNCHANGED <<kind, response, total, buffered>>
        /\ timedOut' \in BOOLEAN /\ aborted' \in BOOLEAN
        /\ kind = "torrent" => ~ aborted'
        /\ Interrupted
        /\ pc = "idle" => ~ timedOut'
    <2>1. CASE TimeoutFires
      BY <2>1 DEF TimeoutFires, IInv, TypeOK, NoAbortOfTorrent
    <2>2. CASE Abort
      BY <2>2 DEF Abort, IInv, TypeOK, NothingYet
    <2> QED
      BY <2>1, <2>2
  <1>2. CASE pc = "reading"
    BY <1>1, <1>2, BreaksOff DEF Interrupted
  <1>3. CASE pc = "fetching"
    <2>1. /\ response = {} /\ body = "none" /\ locked = FALSE /\ total = 0
          /\ buffered = 0 /\ answer = {}
          /\ pc' = "done" /\ result' = "unreachable"
          /\ UNCHANGED <<body, locked, answer>>
      BY <1>1, <1>3 DEF IInv, NothingYet, Interrupted, RejectWith
    <2>2. TypeOK' /\ NothingYet' /\ ReadsOne' /\ LetGo' /\ Resolved' /\ NoAbortOfTorrent'
      BY <1>1, <2>1 DEF IInv, TypeOK, NothingYet, ReadsOne, LetGo, Resolved,
                        NoAbortOfTorrent
    <2>3. CapExact' /\ VerdictOnWholeBody' /\ SignalHeard' /\ OwnErrorBeforeBody'
      BY <1>1, <2>1 DEF IInv, CapExact, VerdictOnWholeBody, SignalHeard,
                        OwnErrorBeforeBody
    <2> QED
      BY <2>2, <2>3 DEF IInv
  <1>4. CASE pc \notin {"reading", "fetching"}
    <2>1. /\ UNCHANGED <<pc, result, peers, answer, locked>>
          /\ body' = IF body = "open" THEN "closed" ELSE body
      BY <1>1, <1>4 DEF Interrupted
    <2>2. TypeOK' /\ NothingYet' /\ ReadsOne' /\ Resolved' /\ NoAbortOfTorrent'
      BY <1>1, <1>4, <2>1
      DEF IInv, TypeOK, NothingYet, ReadsOne, Resolved, NoAbortOfTorrent
    <2>3. LetGo'
      BY <1>1, <1>4, <2>1 DEF IInv, LetGo
    <2>4. CapExact' /\ VerdictOnWholeBody' /\ SignalHeard' /\ OwnErrorBeforeBody'
      BY <1>1, <1>4, <2>1
      DEF IInv, CapExact, DeclaredTooLarge, VerdictOnWholeBody, SignalHeard,
          OwnErrorBeforeBody
    <2> QED
      BY <2>2, <2>3, <2>4 DEF IInv
  <1> QED
    BY <1>2, <1>3, <1>4

LEMMA StepInv == IInv /\ [Next]_vars => IInv'
  <1> SUFFICES ASSUME IInv, [Next]_vars
               PROVE  IInv'
    OBVIOUS
  <1>1. CASE Call \/ FetchFails
    BY <1>1, CallInv
  <1>2. CASE \E r \in Response : Respond(r)
    BY <1>2, RespondInv
  <1>3. CASE \E r \in response : \E n \in 1 .. r.size - total : ReadChunk(n)
    BY <1>3, ChunkInv
  <1>4. CASE ReadFails
    BY <1>4, BreaksOff DEF ReadFails, IInv, TypeOK, NoAbortOfTorrent
  <1>5. CASE Cancelled \/ ReadEnds \/ Parsed
    BY <1>5, CancelledInv, ReadEndsInv, ParsedInv
  <1>6. CASE TimeoutFires \/ Abort
    BY <1>6, InterruptedInv
  <1>7. CASE UNCHANGED vars
    <2>1. TypeOK' /\ NothingYet' /\ ReadsOne' /\ LetGo' /\ Resolved' /\ NoAbortOfTorrent'
      BY <1>7 DEF vars, IInv, TypeOK, NothingYet, ReadsOne, LetGo, Abandoned, Resolved,
                  NoAbortOfTorrent
    <2>2. CapExact' /\ VerdictOnWholeBody' /\ SignalHeard' /\ OwnErrorBeforeBody'
      BY <1>7 DEF vars, IInv, CapExact, DeclaredTooLarge, VerdictOnWholeBody,
                  SignalHeard, OwnErrorBeforeBody
    <2> QED
      BY <2>1, <2>2 DEF IInv
  <1> QED
    BY <1>1, <1>2, <1>3, <1>4, <1>5, <1>6, <1>7 DEF Next

(* The inductive invariant.                                                *)
THEOREM Inductive == Spec => []IInv
  BY InitInv, StepInv, PTL DEF Spec

(* The types of a request's state.                                         *)
THEOREM TypeCorrect == Spec => []TypeOK
  <1>1. IInv => TypeOK
    BY DEF IInv
  <1> QED
    BY Inductive, <1>1, PTL

(* Never more than the cap is kept, and nothing is refused as too large    *)
(* that is neither larger nor declared to be.                              *)
THEOREM Capped == Spec => []CapExact
  <1>1. IInv => CapExact
    BY DEF IInv
  <1> QED
    BY Inductive, <1>1, PTL

(* The content of a body is judged when all of it is there.                *)
THEOREM WholeBodyFirst == Spec => []VerdictOnWholeBody
  <1>1. IInv => VerdictOnWholeBody
    BY DEF IInv
  <1> QED
    BY Inductive, <1>1, PTL

(* No request goes on fetching or reading once a signal has fired.         *)
THEOREM SignalsHeard == Spec => []SignalHeard
  <1>1. IInv => SignalHeard
    BY DEF IInv
  <1> QED
    BY Inductive, <1>1, PTL

(* Only once there is a body can a request fail with a foreign error.      *)
THEOREM OwnErrorsFirst == Spec => []OwnErrorBeforeBody
  <1>1. IInv => OwnErrorBeforeBody
    BY DEF IInv
  <1> QED
    BY Inductive, <1>1, PTL

(* The peers of an announce are those the tracker has written.             *)
THEOREM PeersCorrect == Spec => []PeersAsAnswered
  <1>1. IInv => PeersAsAnswered
    <2> SUFFICES ASSUME IInv, result = "resolved", kind = "announce"
                 PROVE  \E a \in answer :
                          /\ peers = Meant(a.peers) \o Meant(a.peers6)
                          /\ \A list \in {a.peers, a.peers6} :
                               list.damaged => Meant(list) = <<>>
      BY DEF PeersAsAnswered
    <2>1. PICK a \in Answers :
            /\ answer = {a}
            /\ Verdict(a) = "resolved"
            /\ peers = DecodePeers4(a.peers) \o DecodePeers6(a.peers6)
      BY DEF IInv, Resolved
    <2>2. a \in Answer
      BY AnswersAssumption
    <2> QED
      BY <2>1, <2>2, ListAsMeant
  <1> QED
    BY Inductive, <1>1, PTL

-----------------------------------------------------------------------------
(* A request implements ScopedCalls: it settles once, and the body and the *)
(* reader's lock are released by then.                                     *)
THEOREM Refinement == Spec => ImplementsScopedCalls
  <1> USE DEF Scoped!Settled, Requesting
  <1>1. Init => Scoped!Init
    BY DEF Init, Scoped!Init, Status, Holdings
  <1>2. IInv /\ IInv' /\ [Next]_vars => [Scoped!Next]_(Scoped!vars)
    <2> SUFFICES ASSUME IInv, IInv', [Next]_vars
                 PROVE  Scoped!Next
      OBVIOUS
    <2>1. DOMAIN Status' = Requesting /\ DOMAIN Holdings' = Requesting
      BY DEF Status, Holdings
    <2>2. /\ Holdings["request"] \in SUBSET {"body", "reader"}
          /\ Holdings'["request"] \in SUBSET {"body", "reader"}
      BY DEF Holdings
    <2>3. /\ pc = "done" => Holdings["request"] = {}
          /\ pc' = "done" => Holdings'["request"] = {}
      BY DEF Holdings, IInv, LetGo, Abandoned
    <2>4. /\ Status["request"] = IF pc = "idle" THEN "idle" ELSE
                                 IF pc # "done" THEN "running" ELSE
                                 IF result = "resolved" THEN "resolved" ELSE "rejected"
          /\ Status'["request"] = IF pc' = "idle" THEN "idle" ELSE
                                  IF pc' # "done" THEN "running" ELSE
                                  IF result' = "resolved" THEN "resolved" ELSE "rejected"
      BY DEF Status, IInv, TypeOK
    <2>5. \/ pc = "idle" /\ pc' # "idle"
          \/ pc \notin {"idle", "done"} /\ pc' # "idle"
          \/ pc = "idle" /\ pc' = "idle"
          \/ pc = "done" /\ UNCHANGED <<pc, result>>
      BY DEF vars, Next, Call, AnnounceHttp, ResolveTorrentFile, RejectWith,
             FetchFails, Respond, AnnounceResponse, TorrentResponse,
             StartReading, CancelAndReject, ReadChunk, Cancelled, ReadFails,
             ReadEnds, DecodeAnswer, Parsed, TimeoutFires, Abort, Interrupted
    <2>6. \/ Scoped!Unmoved("request") \/ Scoped!Begin("request")
          \/ Scoped!Work("request") \/ Scoped!Settle("request")
      <3>1. CASE pc = "idle" /\ pc' # "idle"
        BY <2>2, <2>3, <2>4, <3>1 DEF Scoped!Begin
      <3>2. CASE pc \notin {"idle", "done"} /\ pc' # "idle"
        BY <2>2, <2>3, <2>4, <3>2 DEF Scoped!Work, Scoped!Settle
      <3>3. CASE pc = "idle" /\ pc' = "idle"
        <4>1. Holdings["request"] = {} /\ Holdings'["request"] = {}
          BY <3>3 DEF Holdings, IInv, NothingYet
        <4> QED
          BY <2>4, <3>3, <4>1 DEF Scoped!Unmoved
      <3>4. CASE pc = "done" /\ UNCHANGED <<pc, result>>
        BY <2>3, <2>4, <3>4 DEF Scoped!Unmoved
      <3> QED
        BY <2>5, <3>1, <3>2, <3>3, <3>4
    <2> QED
      BY <2>1, <2>6 DEF Scoped!Next
  <1> QED
    BY Inductive, <1>1, <1>2, PTL DEF Spec, ImplementsScopedCalls, Scoped!Spec

-----------------------------------------------------------------------------
(* The timeout strikes no call that has not begun; after it nothing is     *)
(* fetched or read, and no body is open.                                   *)
TimeoutEnds ==
  /\ pc = "idle" => ~ timedOut
  /\ timedOut => pc \in {"cancelling", "parsing", "done"} /\ body # "open"

(* What SettlesReleased rests upon.  The timeout of a call that has begun  *)
(* is still to come or has come, and then nothing depends on the server    *)
(* any more, not even the body of an error response that the code itself   *)
(* has forgotten.                                                          *)
THEOREM TimeoutLetsGo == Spec => []TimeoutEnds
  <1>1. Init => TimeoutEnds
    BY DEF Init, TimeoutEnds
  <1>2. IInv /\ TimeoutEnds /\ [Next]_vars => TimeoutEnds'
    <2> SUFFICES ASSUME IInv, TimeoutEnds, [Next]_vars
                 PROVE  TimeoutEnds'
      OBVIOUS
    <2>1. CASE TimeoutFires \/ Abort
      BY <2>1 DEF TimeoutFires, Abort, Interrupted, ReleaseLock, RejectWith,
                  TimeoutEnds, IInv, TypeOK, NothingYet
    <2>2. CASE Call \/ FetchFails \/ \E r \in Response : Respond(r)
      <3>1. ~ timedOut /\ timedOut' = timedOut /\ pc' # "idle"
        BY <2>2 DEF Call, AnnounceHttp, ResolveTorrentFile, FetchFails, Respond,
                    AnnounceResponse, TorrentResponse, StartReading, RejectWith,
                    CancelAndReject, TimeoutEnds
      <3> QED
        BY <3>1 DEF TimeoutEnds
    <2>3. CASE ReadFails \/ ReadEnds
               \/ \E r \in response : \E n \in 1 .. r.size - total : ReadChunk(n)
      <3>1. ~ timedOut /\ timedOut' = timedOut /\ pc' # "idle"
        BY <2>3 DEF ReadFails, ReadEnds, ReadChunk, DecodeAnswer, RejectWith,
                    CancelAndReject, TimeoutEnds
      <3> QED
        BY <3>1 DEF TimeoutEnds
    <2>4. CASE Cancelled \/ Parsed
      BY <2>4 DEF Cancelled, Parsed, TimeoutEnds
    <2>5. CASE UNCHANGED vars
      BY <2>5 DEF vars, TimeoutEnds
    <2> QED
      BY <2>1, <2>2, <2>3, <2>4, <2>5 DEF Next
  <1> QED
    BY <1>1, <1>2, Inductive, PTL DEF Spec

=============================================================================
