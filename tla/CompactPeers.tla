---------------------------- MODULE CompactPeers ----------------------------
(***************************************************************************)
(* The compact peer lists of BEP 23 and BEP 7 (tracker/compact-peers.js).  *)
(* A buffer is a sequence of bytes.  A host is kept as the numbers its     *)
(* text is made of: four bytes, or eight groups of 16 bits.                *)
(***************************************************************************)
EXTENDS Integers, Sequences

Byte == 0 .. 255
Uint16 == 0 .. 65535

Peer4 == [host : [1 .. 4 -> Byte], port : Uint16]
Peer6 == [host : [1 .. 8 -> Uint16], port : Uint16]

WordLittleEndian(hi, lo) == lo * 256 + hi                            \* mutant

(* (hi << 8) | lo                                                          *)
Word(hi, lo) == hi * 256 + lo

(* Neither decoder reads past a truncated last entry: it throws instead.   *)
WholeEntries(width, buf) == Len(buf) % width = 0

(* The decoders, for buffers of whole entries.                             *)
DecodeCompactPeers4(buf) ==
  [i \in 1 .. Len(buf) \div 6 |->
     LET at == 6 * (i - 1)
     IN [host |-> [b \in 1 .. 4 |-> buf[at + b]],
         port |-> Word(buf[at + 5], buf[at + 6])]]

DecodeCompactPeers6(buf) ==
  [i \in 1 .. Len(buf) \div 18 |->
     LET at == 18 * (i - 1)
     IN [host |-> [g \in 1 .. 8 |-> Word(buf[at + 2 * g - 1], buf[at + 2 * g])],
         port |-> Word(buf[at + 17], buf[at + 18])]]

-----------------------------------------------------------------------------
(* What a tracker writes for a list of peers.                              *)
High(w) == w \div 256
Low(w) == w % 256

ByteOf4(peer, b) ==
  IF b <= 4 THEN peer.host[b] ELSE IF b = 5 THEN High(peer.port) ELSE Low(peer.port)

EncodeCompactPeers4(peers) ==
  [k \in 1 .. 6 * Len(peers) |-> ByteOf4(peers[((k - 1) \div 6) + 1], ((k - 1) % 6) + 1)]

ByteOf6(peer, b) ==
  LET word == IF b <= 16 THEN peer.host[(b + 1) \div 2] ELSE peer.port
  IN IF b % 2 = 1 THEN High(word) ELSE Low(word)

EncodeCompactPeers6(peers) ==
  [k \in 1 .. 18 * Len(peers) |-> ByteOf6(peers[((k - 1) \div 18) + 1], ((k - 1) % 18) + 1)]

=============================================================================
