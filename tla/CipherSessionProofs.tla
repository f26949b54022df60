------------------------ MODULE CipherSessionProofs ------------------------
(***************************************************************************)
(* TypeOK, ConfirmMatchesAnswer, CleanHandshakeAgrees and                  *)
(* LostOnlyWhenDisturbed of CipherSession, for any number of handshakes,   *)
(* refused pushes, reloads and data messages.                              *)
(*                                                                         *)
(* The client takes a new sequence and a new key pair together, so there   *)
(* is a numbering, from sequences to the client's key pairs, that every    *)
(* message and the server's context agree with: Numbered below. The        *)
(* sequence of a confirmation therefore determines the key pair the server *)
(* generated for it.                                                       *)
(*                                                                         *)
(* The second part follows the one handshake that is under way while       *)
(* nothing disturbs it: it is in one place at a time, its reply and its    *)
(* confirmation name what the server has staged, and every data message on *)
(* a link can be read with the cipher its receiver will have by then:      *)
(* HandshakeInv below.                                                     *)
(*                                                                         *)
(* The third part bounds what TypeOK bounds. The client takes a sequence   *)
(* for a request and one for a confirmation, and a handshake is in one     *)
(* place at a time, so its sequence and the handshakes under way together  *)
(* are at most twice the key pairs: BudgetInv below.                       *)
(***************************************************************************)
EXTENDS CipherSession, SequenceTheorems, WellFoundedInduction, NaturalsInduction, TLAPS

\* What NegotiateCryptoAlgorithm can select from a set of allowed algorithms.
Selections == {CHOOSE a \in s : \A b \in s : a <= b : s \in SUBSET Algs}
AnyAlg == Selections \cup Algs \cup {NoneAlg}
AnyCipher == [alg : AnyAlg, key : SUBSET Nat]
AnyKx == KeyExchanges \cup {NoKx}
AnyHandshake == [seq : Nat, kx : AnyKx, algs : SUBSET AnyAlg, pub : Nat]
AnyMessage == [kind : Kinds, hs : AnyHandshake, ok : BOOLEAN, cipher : AnyCipher]
AnyContext ==
    [read : AnyCipher, write : AnyCipher, staged : AnyCipher, pending : BOOLEAN,
     self : Nat, kx : AnyKx, kxUsed : AnyKx, hsSeq : Nat, seq : Nat]

\* The messages that agree with the numbering num, when the client's last
\* sequence is last and its key exchange kx: the client's own carry its key
\* pair, the server's and the confirmations the key pair made in answer.
Agreeing(num, last, kx) ==
    {m \in AnyMessage :
        /\ m.kind = "confirm" => m.hs.seq # 0
        /\ m.hs.seq # 0 =>
             /\ m.hs.seq <= last
             /\ m.kind \in {"register", "ping"} =>
                    m.hs.kx = kx /\ m.hs.pub = num[m.hs.seq]
             /\ m.kind \in {"register_rsp", "pong", "confirm"} =>
                    m.hs.pub = MaxKeys + num[m.hs.seq]}

Agreed(num) == Agreeing(num, ctx["client"].seq, ctx["client"].kx)

\* The server's key pair is the one for its current sequence, and what it has
\* staged was derived from that key pair.
ServerAgrees(num, s, last, kx) ==
    /\ s.kx = NoKx => s.self = 0
    /\ s.kx # NoKx /\ s.hsSeq # 0 =>
         s.hsSeq <= last /\ s.self = MaxKeys + num[s.hsSeq]
    /\ s.pending => /\ s.kx = kx
                    /\ s.kx # NoKx
                    /\ s.staged = Plain \/ s.self \in s.staged.key

ContextsOK ==
    /\ ctx \in [Ends -> AnyContext]
    /\ allow \in [Ends -> SUBSET Algs]
    /\ used \in [keys : Nat, data : Nat, refused : Nat, reloads : Nat]
    /\ ctx["client"].kx = NoKx => ctx["client"].self = 0

MessagesOK(num) ==
    /\ link \in [Ends -> Seq(Agreed(num))]
    /\ answer \in [Ends -> Agreed(num)]
    /\ ping \in Agreed(num)
    /\ packed \in [Ends -> Agreed(num)]

Numbered(num) ==
    /\ num \in [Nat -> Nat]
    /\ ContextsOK
    /\ MessagesOK(num)
    /\ ServerAgrees(num, ctx["server"], ctx["client"].seq, ctx["client"].kx)

\* The inductive invariant.
SessionInv == \E num : Numbered(num)

----------------------------------------------------------------------------
(* The operations of a ConnectionContext.                                  *)

\* The constants have the types of their fields.
LEMMA ConstantFacts ==
  /\ NoKx \in AnyKx /\ NoneAlg \in AnyAlg /\ 1 \in AnyAlg
  /\ Plain \in AnyCipher /\ NoHandshake \in AnyHandshake
  /\ MaxKeys \in Nat
  BY CipherAssumption
     DEF AnyKx, AnyAlg, Algs, Plain, AnyCipher, NoHandshake, AnyHandshake, NoneAlg

\* NegotiateCryptoAlgorithm selects from the allowed algorithms.
LEMMA NegotiateFacts ==
  ASSUME NEW local \in SUBSET Algs, NEW remote
  PROVE  NegotiateCryptoAlgorithm(local, remote) \in AnyAlg
<1>1. local \cap remote \in SUBSET Algs
  OBVIOUS
<1> QED
  BY <1>1 DEF NegotiateCryptoAlgorithm, AnyAlg, Selections

\* HandshakeGenerateSelfKey takes the next sequence, or the peer's, and
\* touches no cipher.
LEMMA GenerateFacts ==
  ASSUME NEW c \in AnyContext, NEW peerSeq \in Nat, NEW pair \in Nat
  PROVE  LET made == HandshakeGenerateSelfKey(c, peerSeq, pair)
         IN  /\ made \in AnyContext
             /\ made.kx = c.kx /\ made.pending = c.pending /\ made.staged = c.staged
             /\ made.seq = IF peerSeq = 0 THEN c.seq + 1 ELSE c.seq
             /\ made.hsSeq = IF peerSeq = 0 THEN c.seq + 1 ELSE peerSeq
             /\ made.self = IF c.kx # NoKx THEN pair ELSE c.self
<1> DEFINE n == IF peerSeq = 0 THEN c.seq + 1 ELSE c.seq
           h == IF peerSeq = 0 THEN c.seq + 1 ELSE peerSeq
           sequenced == [c EXCEPT !.seq = n, !.hsSeq = h]
           made == HandshakeGenerateSelfKey(c, peerSeq, pair)
<1>1. n \in Nat /\ h \in Nat /\ c.kx \in AnyKx
  BY DEF AnyContext
<1>2. sequenced \in AnyContext
  BY <1>1 DEF AnyContext
<1>3. /\ sequenced.kx = c.kx /\ sequenced.pending = c.pending
      /\ sequenced.staged = c.staged /\ sequenced.self = c.self
      /\ sequenced.seq = n /\ sequenced.hsSeq = h
  BY <1>1 DEF AnyContext
<1>4. made = IF c.kx # NoKx THEN [sequenced EXCEPT !.self = pair, !.kxUsed = c.kx]
             ELSE sequenced
  BY DEF HandshakeGenerateSelfKey, CanGenerate
<1> HIDE DEF sequenced, n, h, made
<1>5. CASE c.kx # NoKx
  BY <1>1, <1>2, <1>3, <1>4, <1>5 DEF AnyContext, n, h, made
<1>6. CASE c.kx = NoKx
  BY <1>1, <1>2, <1>3, <1>4, <1>6 DEF n, h, made
<1> QED
  BY <1>5, <1>6

\* A derived cipher is plain or made from the own key pair.
LEMMA DerivedFacts ==
  ASSUME NEW c \in AnyContext, NEW hs \in AnyHandshake, NEW allowed \in SUBSET Algs
  PROVE  /\ DerivedCipher(c, hs, allowed) \in AnyCipher
         /\ \/ DerivedCipher(c, hs, allowed) = Plain
            \/ c.self \in DerivedCipher(c, hs, allowed).key
<1>1. NegotiateCryptoAlgorithm(allowed, hs.algs) \in AnyAlg
  BY NegotiateFacts
<1>2. c.self \in Nat /\ hs.pub \in Nat
  BY DEF AnyContext, AnyHandshake
<1> QED
  BY <1>1, <1>2, ConstantFacts DEF DerivedCipher, AnyCipher

\* HandshakeReadPeerKey leaves sequences and key pairs alone. The receiver of
\* a request stages the derived cipher ...
LEMMA StageFacts ==
  ASSUME NEW c \in AnyContext, NEW hs \in AnyHandshake, NEW allowed \in SUBSET Algs
  PROVE  LET after == HandshakeReadPeerKey(c, hs, allowed, TRUE)
         IN  /\ after \in AnyContext
             /\ after.kx = c.kx /\ after.hsSeq = c.hsSeq /\ after.self = c.self
             /\ ~CanRead(c, hs) => after = c
             /\ CanRead(c, hs) =>
                  after.pending = TRUE /\ after.staged = DerivedCipher(c, hs, allowed)
<1>1. DerivedCipher(c, hs, allowed) \in AnyCipher
  BY DerivedFacts
<1>2. CASE ~CanRead(c, hs)
  BY <1>2 DEF HandshakeReadPeerKey
<1>3. CASE CanRead(c, hs)
  BY <1>1, <1>3 DEF HandshakeReadPeerKey, AnyContext
<1> QED
  BY <1>2, <1>3

\* ... and the receiver of an answer reads with it at once.
LEMMA ReplaceFacts ==
  ASSUME NEW c \in AnyContext, NEW hs \in AnyHandshake, NEW allowed \in SUBSET Algs
  PROVE  LET after == HandshakeReadPeerKey(c, hs, allowed, FALSE)
         IN  /\ after \in AnyContext
             /\ after.kx = c.kx /\ after.seq = c.seq /\ after.self = c.self
<1>1. DerivedCipher(c, hs, allowed) \in AnyCipher
  BY DerivedFacts
<1>2. CASE ~CanRead(c, hs)
  BY <1>2 DEF HandshakeReadPeerKey
<1>3. CASE CanRead(c, hs)
  BY <1>1, <1>3 DEF HandshakeReadPeerKey, AnyContext
<1> QED
  BY <1>2, <1>3

\* GetNextSequence changes the sequence only.
LEMMA NextSequenceFacts ==
  ASSUME NEW c \in AnyContext
  PROVE  /\ GetNextSequence(c) \in AnyContext
         /\ GetNextSequence(c).kx = c.kx /\ GetNextSequence(c).self = c.self
         /\ GetNextSequence(c).seq = c.seq + 1
  BY DEF GetNextSequence, AnyContext

\* ConfirmHandshake changes the staged and the receive cipher only.
LEMMA ConfirmFacts ==
  ASSUME NEW c \in AnyContext, NEW seq
  PROVE  LET after == ConfirmHandshake(c, seq)
         IN  /\ after \in AnyContext
             /\ after.kx = c.kx /\ after.seq = c.seq /\ after.hsSeq = c.hsSeq
             /\ after.self = c.self
             /\ after = c \/ ~after.pending
             /\ c.pending /\ ~after.pending => c.hsSeq = seq
  BY ConstantFacts DEF ConfirmHandshake, AnyContext

\* HandshakeWriteSelfPublicKey shows the current sequence and key pair.
LEMMA WriteFacts ==
  ASSUME NEW c \in AnyContext, NEW algs \in SUBSET AnyAlg
  PROVE  LET hs == HandshakeWriteSelfPublicKey(c, algs)
         IN  /\ hs \in AnyHandshake
             /\ c.self = 0 => hs = NoHandshake
             /\ c.self # 0 => hs.seq = c.hsSeq /\ hs.kx = c.kx /\ hs.pub = c.self
  BY ConstantFacts DEF HandshakeWriteSelfPublicKey, AnyContext, AnyHandshake

\* The algorithm the server sends back is one that can be selected.
LEMMA SelectedFacts ==
  ASSUME NEW c \in AnyContext
  PROVE  Selected(c) \in SUBSET AnyAlg
  BY DEF Selected, GetCryptoSelectAlgorithm, AnyContext, AnyCipher

\* A message without handshake data agrees with every numbering.
LEMMA SilentAgrees ==
  ASSUME NEW num, NEW last, NEW kx, NEW cipher \in AnyCipher, NEW ok \in BOOLEAN,
         NEW kind \in Kinds \ {"confirm"}
  PROVE  Message(kind, NoHandshake, ok, cipher) \in Agreeing(num, last, kx)
  BY ConstantFacts DEF Agreeing, Message, AnyMessage, NoHandshake

\* Messages that agree now agree after the client has numbered one more.
LEMMA AgreeingGrows ==
  ASSUME NEW num \in [Nat -> Nat], NEW last \in Nat, NEW more \in Nat, last <= more,
         NEW other \in [Nat -> Nat], \A i \in Nat : i <= last => other[i] = num[i],
         NEW kx
  PROVE  Agreeing(num, last, kx) \subseteq Agreeing(other, more, kx)
  BY DEF Agreeing, AnyMessage, AnyHandshake
----------------------------------------------------------------------------
(* Messages pushed and read.                                               *)

\* What agrees and is pushed joins messages that agree.
LEMMA PushFacts ==
  ASSUME NEW G, NEW e \in Ends, NEW m \in G, link \in [Ends -> Seq(G)]
  PROVE  PushedTo(e, m) \in [Ends -> Seq(G)]
<1>1. Append(link[e], m) \in Seq(G)
  BY AppendProperties
<1> QED
  BY <1>1 DEF PushedTo

\* The message that is read is one that was pushed.
LEMMA PopFacts ==
  ASSUME NEW G, NEW e \in Ends, NEW kind, link \in [Ends -> Seq(G)], Receives(e, kind)
  PROVE  /\ Head(link[e]) \in G /\ Head(link[e]).kind = kind
         /\ Popped(e) \in [Ends -> Seq(G)]
<1>1. link[e] \in Seq(G) /\ link[e] # <<>> /\ Head(link[e]).kind = kind
  BY DEF Receives
<1>2. Head(link[e]) \in G /\ Tail(link[e]) \in Seq(G)
  BY <1>1, HeadTailProperties
<1> QED
  BY <1>1, <1>2 DEF Popped

\* Links whose messages agree with one numbering agree with a larger one.
LEMMA MessagesGrow ==
  ASSUME NEW G, NEW H, G \subseteq H
  PROVE  /\ [Ends -> Seq(G)] \subseteq [Ends -> Seq(H)]
         /\ [Ends -> G] \subseteq [Ends -> H]
<1>1. Seq(G) \subseteq Seq(H)
  BY SeqMonotonic
<1> QED
  BY <1>1

\* A connection has two ends, each the other's peer.
LEMMA EndsFacts ==
  /\ "client" \in Ends /\ "server" \in Ends
  /\ \A e \in Ends : Peer(e) \in Ends
  BY DEF Ends, Peer

----------------------------------------------------------------------------
(* The handshake's parts.                                                  *)

\* The client numbers its new key pair with its new sequence, which no message
\* has used yet.
LEMMA ClientNumbers ==
  ASSUME NEW num, Numbered(num), NEW kind \in {"register", "ping"},
         NEW made, made = HandshakeGenerateSelfKey(ctx["client"], 0, used.keys + 1),
         NEW hs, hs \in {NoHandshake, HandshakeWriteSelfPublicKey(made, allow["client"])},
         NEW other, other = [num EXCEPT ![ctx["client"].seq + 1] = used.keys + 1]
  PROVE  /\ other \in [Nat -> Nat]
         /\ made \in AnyContext
         /\ made.kx = NoKx => made.self = 0
         /\ Agreed(num) \subseteq Agreeing(other, made.seq, made.kx)
         /\ Message(kind, hs, TRUE, Plain) \in Agreeing(other, made.seq, made.kx)
         /\ ServerAgrees(other, ctx["server"], made.seq, made.kx)
<1> DEFINE c == ctx["client"]
           s == ctx["server"]
<1>1. /\ c \in AnyContext /\ s \in AnyContext /\ num \in [Nat -> Nat]
      /\ used.keys + 1 \in Nat /\ allow["client"] \in SUBSET Algs
      /\ c.kx = NoKx => c.self = 0
      /\ ServerAgrees(num, s, c.seq, c.kx)
  BY EndsFacts DEF Numbered, ContextsOK
<1>2. c.seq \in Nat /\ s.hsSeq \in Nat /\ used.keys + 1 # 0
  BY <1>1, EndsFacts DEF AnyContext, Numbered, ContextsOK
<1>3. /\ made \in AnyContext /\ made.kx = c.kx
      /\ made.seq = c.seq + 1 /\ made.hsSeq = c.seq + 1
      /\ made.self = IF c.kx # NoKx THEN used.keys + 1 ELSE c.self
  BY <1>1, GenerateFacts
<1>4. /\ other \in [Nat -> Nat]
      /\ \A i \in Nat : i <= c.seq => other[i] = num[i]
      /\ other[c.seq + 1] = used.keys + 1
  BY <1>1, <1>2
<1>5. Agreed(num) \subseteq Agreeing(other, made.seq, made.kx)
  <2> DEFINE n == c.seq
             k == c.kx
  <2>1. made.seq \in Nat /\ n \in Nat /\ n <= made.seq
    BY <1>2, <1>3
  <2>2. num \in [Nat -> Nat] /\ \A i \in Nat : i <= n => other[i] = num[i]
    BY <1>1, <1>4
  <2>3. other \in [Nat -> Nat]
    BY <1>4
  <2> HIDE DEF n, k
  <2>4. Agreeing(num, n, k) \subseteq Agreeing(other, made.seq, k)
    BY ONLY <2>1, <2>2, <2>3, AgreeingGrows, ZenonT(60)
  <2> QED
    BY <2>4, <1>3 DEF Agreed, n, k
<1>6. Message(kind, hs, TRUE, Plain) \in Agreeing(other, made.seq, made.kx)
  <2>1. CASE hs = NoHandshake
    BY <2>1, SilentAgrees, ConstantFacts DEF Kinds
  <2>2. CASE hs # NoHandshake
    <3>1. allow["client"] \in SUBSET AnyAlg
      BY <1>1 DEF AnyAlg
    <3>2. /\ hs = HandshakeWriteSelfPublicKey(made, allow["client"])
          /\ hs \in AnyHandshake /\ made.self # 0
          /\ hs.seq = c.seq + 1 /\ hs.kx = c.kx /\ hs.pub = made.self
      BY <2>2, <3>1, <1>3, WriteFacts
    <3>3. hs.pub = other[hs.seq]
      BY <3>2, <1>1, <1>3, <1>4
    <3> QED
      BY <3>2, <3>3, <1>2, <1>3, ConstantFacts DEF Agreeing, Message, AnyMessage, Kinds
  <2> QED
    BY <2>1, <2>2
<1>7. ServerAgrees(other, s, made.seq, made.kx)
  BY <1>1, <1>2, <1>3, <1>4 DEF ServerAgrees
<1> QED
  BY <1>1, <1>3, <1>4, <1>5, <1>6, <1>7

\* The server's handlers make the key pair for the request's sequence and
\* stage what they derive from it; nothing that is pending stops being so.
LEMMA ServerNegotiates ==
  ASSUME NEW num, NEW last, NEW kx, NEW s \in AnyContext, ServerAgrees(num, s, last, kx),
         NEW hs \in AnyHandshake, hs.seq # 0, hs.seq <= last, hs.kx = kx,
         hs.pub = num[hs.seq], allow["server"] \in SUBSET Algs,
         NEW after, after = ServerNegotiate(s, hs)
  PROVE  /\ after \in AnyContext
         /\ ServerAgrees(num, after, last, kx)
         /\ s.pending => after.pending
<1> DEFINE made == HandshakeGenerateSelfKey(s, hs.seq, MaxKeys + hs.pub)
           p == MaxKeys + hs.pub
           q == hs.seq
<1>1. q \in Nat /\ q # 0 /\ p \in Nat
  BY ConstantFacts DEF AnyHandshake
<1>2. /\ made \in AnyContext /\ made.kx = s.kx /\ made.hsSeq = hs.seq
      /\ made.pending = s.pending /\ made.staged = s.staged
      /\ made.self = IF s.kx # NoKx THEN MaxKeys + hs.pub ELSE s.self
  <2> HIDE DEF p, q
  <2>1. made = HandshakeGenerateSelfKey(s, q, p)
    BY DEF p, q
  <2> HIDE DEF made
  <2>2. s \in AnyContext
    OBVIOUS
  <2>3. /\ made \in AnyContext /\ made.kx = s.kx /\ made.hsSeq = q
        /\ made.pending = s.pending /\ made.staged = s.staged
        /\ made.self = IF s.kx # NoKx THEN p ELSE s.self
    BY ONLY <2>1, <2>2, <1>1, GenerateFacts
  <2> QED
    BY ONLY <2>3 DEF p, q
<1>3. after = IF s.kx # NoKx THEN HandshakeReadPeerKey(made, hs, allow["server"], TRUE)
              ELSE made
  BY DEF ServerNegotiate, CanGenerate
<1> HIDE DEF made
<1>4. CASE s.kx = NoKx
  BY <1>2, <1>3, <1>4 DEF ServerAgrees
<1>5. CASE s.kx # NoKx /\ kx # s.kx
  <2>1. ~CanRead(made, hs)
    BY <1>2, <1>5 DEF CanRead
  <2>2. after = made
    BY <2>1, <1>2, <1>3, <1>5, StageFacts
  <2> QED
    BY <2>2, <1>2, <1>5 DEF ServerAgrees
<1>6. CASE s.kx # NoKx /\ kx = s.kx
  <2>1. CanRead(made, hs)
    BY <1>2, <1>6 DEF CanRead
  <2>2. /\ after \in AnyContext /\ after.kx = s.kx /\ after.hsSeq = hs.seq
        /\ after.self = made.self /\ after.pending = TRUE
        /\ after.staged = DerivedCipher(made, hs, allow["server"])
    <3> DEFINE allowed == allow["server"]
    <3>1. after = HandshakeReadPeerKey(made, hs, allowed, TRUE)
      BY <1>3, <1>6
    <3>2. allowed \in SUBSET Algs /\ hs \in AnyHandshake
      OBVIOUS
    <3> HIDE DEF allowed
    <3>3. /\ after \in AnyContext /\ after.kx = made.kx /\ after.hsSeq = made.hsSeq
          /\ after.self = made.self
          /\ after.pending = TRUE /\ after.staged = DerivedCipher(made, hs, allowed)
      BY ONLY <3>1, <3>2, <2>1, <1>2, StageFacts
    <3> QED
      BY ONLY <3>3, <1>2 DEF allowed
  <2>3. after.staged = Plain \/ after.self \in after.staged.key
    BY <2>2, <1>2, DerivedFacts
  <2> QED
    BY <2>2, <2>3, <1>2, <1>6 DEF ServerAgrees
<1> QED
  BY <1>4, <1>5, <1>6

\* The server's answer shows the key pair of its current sequence.
LEMMA ServerAnswers ==
  ASSUME NEW num, NEW last, NEW kx, NEW after \in AnyContext,
         ServerAgrees(num, after, last, kx), NEW kind \in {"register_rsp", "pong"},
         NEW hs, hs \in {NoHandshake, HandshakeWriteSelfPublicKey(after, Selected(after))}
  PROVE  Message(kind, hs, TRUE, Plain) \in Agreeing(num, last, kx)
<1>1. CASE hs = NoHandshake
  BY <1>1, SilentAgrees, ConstantFacts DEF Kinds
<1>2. CASE hs # NoHandshake
  <2>1. /\ hs = HandshakeWriteSelfPublicKey(after, Selected(after))
        /\ hs \in AnyHandshake /\ after.self # 0
        /\ hs.seq = after.hsSeq /\ hs.pub = after.self
    BY <1>2, WriteFacts, SelectedFacts
  <2>2. hs.seq # 0 => hs.seq <= last /\ hs.pub = MaxKeys + num[hs.seq]
    BY <2>1 DEF ServerAgrees
  <2> QED
    BY <2>1, <2>2, ConstantFacts DEF Agreeing, Message, AnyMessage, Kinds
<1> QED
  BY <1>1, <1>2

\* The client's confirmation repeats the answer's handshake data.
LEMMA ClientConfirms ==
  ASSUME NEW num \in [Nat -> Nat], NEW c \in AnyContext, NEW s \in AnyContext,
         c.kx = NoKx => c.self = 0, ServerAgrees(num, s, c.seq, c.kx),
         NEW hs \in AnyHandshake, hs.seq # 0, hs.seq <= c.seq,
         hs.pub = MaxKeys + num[hs.seq], NEW allowed \in SUBSET Algs,
         NEW after, after = GetNextSequence(HandshakeReadPeerKey(c, hs, allowed, FALSE))
  PROVE  /\ after \in AnyContext
         /\ after.kx = NoKx => after.self = 0
         /\ Agreeing(num, c.seq, c.kx) \subseteq Agreeing(num, after.seq, after.kx)
         /\ Message("confirm", hs, TRUE, Plain) \in Agreeing(num, after.seq, after.kx)
         /\ ServerAgrees(num, s, after.seq, after.kx)
<1> DEFINE read == HandshakeReadPeerKey(c, hs, allowed, FALSE)
           n == c.seq
           k == c.kx
<1>1. read \in AnyContext /\ read.kx = k /\ read.seq = n /\ read.self = c.self
  BY ReplaceFacts
<1>2. after \in AnyContext /\ after.kx = k /\ after.seq = n + 1 /\ after.self = c.self
  <2> HIDE DEF read
  <2>1. after = GetNextSequence(read)
    BY DEF read
  <2> QED
    BY <2>1, <1>1, NextSequenceFacts
<1>3. n \in Nat /\ s.hsSeq \in Nat /\ hs.seq \in Nat /\ hs.seq <= n
  BY DEF AnyContext, AnyHandshake
<1> HIDE DEF n, k
<1>4. after.seq \in Nat /\ n <= after.seq /\ hs.seq <= after.seq
  BY ONLY <1>2, <1>3
<1>5. Agreeing(num, n, k) \subseteq Agreeing(num, after.seq, k)
  BY <1>3, <1>4, AgreeingGrows
<1>6. Message("confirm", hs, TRUE, Plain) \in Agreeing(num, after.seq, after.kx)
  BY <1>4, ConstantFacts DEF Agreeing, Message, AnyMessage, Kinds
<1>7. ServerAgrees(num, s, after.seq, after.kx)
  <2>1. ServerAgrees(num, s, n, k)
    BY DEF n, k
  <2>2. s.hsSeq <= n => s.hsSeq <= after.seq
    BY ONLY <1>2, <1>3
  <2> QED
    BY ONLY <2>1, <2>2, <1>2 DEF ServerAgrees
<1> QED
  BY <1>2, <1>5, <1>6, <1>7 DEF n, k
----------------------------------------------------------------------------
(* Every step keeps a numbering.                                           *)

\* Initially nothing is numbered.
LEMMA InitNumbered == Init => SessionInv
<1> SUFFICES ASSUME Init PROVE Numbered([i \in Nat |-> 0])
  BY DEF SessionInv
<1> DEFINE num == [i \in Nat |-> 0]
<1>1. PICK kx \in [Ends -> AnyKx], preset \in BOOLEAN, primed \in BOOLEAN :
         LET fresh(e) == [NewConnectionContext(kx[e]) EXCEPT
                            !.read = IF preset THEN PresetCipher ELSE Plain,
                            !.write = IF preset THEN PresetCipher ELSE Plain]
         IN  /\ ctx = [e \in Ends |-> IF primed /\ e = "client"
                                      THEN HandshakeGenerateSelfKey(fresh(e), 0, 1)
                                      ELSE fresh(e)]
             /\ used = [keys |-> IF primed THEN 1 ELSE 0,
                        data |-> 0, refused |-> 0, reloads |-> 0]
  BY DEF Init, AnyKx
<1> DEFINE cipher == IF preset THEN PresetCipher ELSE Plain
           fresh(e) == [NewConnectionContext(kx[e]) EXCEPT !.read = cipher, !.write = cipher]
<1>2. cipher \in AnyCipher
  BY ConstantFacts DEF PresetCipher, AnyCipher
<1>3. ctx = [e \in Ends |-> IF primed /\ e = "client"
                           THEN HandshakeGenerateSelfKey(fresh(e), 0, 1) ELSE fresh(e)]
  BY <1>1
<1> HIDE DEF cipher
<1>4. \A e \in Ends : /\ fresh(e) \in AnyContext
                      /\ fresh(e).self = 0 /\ fresh(e).hsSeq = 0 /\ fresh(e).pending = FALSE
  <2> SUFFICES ASSUME NEW e \in Ends
               PROVE  /\ fresh(e) \in AnyContext
                      /\ fresh(e).self = 0 /\ fresh(e).hsSeq = 0 /\ fresh(e).pending = FALSE
    OBVIOUS
  <2> DEFINE c == NewConnectionContext(kx[e])
  <2>1. c \in AnyContext /\ c.self = 0 /\ c.hsSeq = 0 /\ c.pending = FALSE
    BY ConstantFacts DEF NewConnectionContext, AnyContext
  <2> HIDE DEF c
  <2> QED
    BY <2>1, <1>2 DEF AnyContext, c
<1> HIDE DEF fresh
<1>5. ctx["server"] = fresh("server")
  BY <1>3, EndsFacts
<1>6. ctx["client"] \in {fresh("client"), HandshakeGenerateSelfKey(fresh("client"), 0, 1)}
  BY <1>3, EndsFacts
<1>7. /\ ctx["client"] \in AnyContext
      /\ ctx["client"].kx = NoKx => ctx["client"].self = 0
  <2> DEFINE c == fresh("client")
             made == HandshakeGenerateSelfKey(c, 0, 1)
  <2>1. c \in AnyContext /\ c.self = 0
    BY <1>4, EndsFacts
  <2> HIDE DEF c
  <2>2. made \in AnyContext /\ (made.kx = NoKx => made.self = 0)
    BY ONLY <2>1, GenerateFacts
  <2> HIDE DEF made
  <2> QED
    BY <2>1, <2>2, <1>6 DEF c, made
<1>8. ContextsOK
  <2>1. ctx \in [Ends -> AnyContext]
    BY <1>3, <1>4, <1>5, <1>7, EndsFacts DEF Ends
  <2>2. allow \in [Ends -> SUBSET Algs]
    BY DEF Init
  <2>3. used \in [keys : Nat, data : Nat, refused : Nat, reloads : Nat]
    BY <1>1
  <2> QED
    BY <2>1, <2>2, <2>3, <1>7 DEF ContextsOK
<1>9. MessagesOK(num)
  <2>1. Nothing \in Agreed(num)
    BY SilentAgrees, ConstantFacts DEF Nothing, Agreed, Kinds
  <2> HIDE DEF num
  <2> QED
    BY <2>1, EmptySeq DEF Init, MessagesOK
<1>10. ServerAgrees(num, ctx["server"], ctx["client"].seq, ctx["client"].kx)
  BY <1>4, <1>5, EndsFacts DEF ServerAgrees
<1> QED
  BY <1>8, <1>9, <1>10 DEF Numbered

\* Steps that change no context: messages move, and none is new but data.
LEMMA QuietNumbered ==
  ASSUME NEW num, Numbered(num), ctx' = ctx,
         NEW e \in Ends,
         PushPing \/ PushAnswer(e) \/ RefuseAnswer(e) \/ PackData(e) \/ PushData(e)
           \/ OnRecvData(e) \/ ReloadCrypto(e)
  PROVE  Numbered(num)'
<1> DEFINE G == Agreed(num)
<1>1. G' = G
  BY DEF Agreed
<1>2. /\ link \in [Ends -> Seq(G)] /\ answer \in [Ends -> G] /\ ping \in G
      /\ packed \in [Ends -> G] /\ ctx \in [Ends -> AnyContext]
  BY DEF Numbered, MessagesOK, ContextsOK
<1>3. Nothing \in G
  BY SilentAgrees, ConstantFacts DEF Nothing, Agreed, Kinds
<1> HIDE DEF G
<1>4. \A m \in G : PushedTo("server", m) \in [Ends -> Seq(G)]
                  /\ PushedTo(Peer(e), m) \in [Ends -> Seq(G)]
  BY <1>2, PushFacts, EndsFacts
<1>5. \A kind : Receives(e, kind) => Popped(e) \in [Ends -> Seq(G)]
  BY <1>2, PopFacts
<1>6. PackMessage(ctx[e]) \in G
  <2>1. ctx[e].write \in AnyCipher
    BY <1>2 DEF AnyContext
  <2> QED
    BY <2>1, SilentAgrees DEF PackMessage, Data, G, Agreed, Kinds
<1>7. link' \in [Ends -> Seq(G)]
  <2>1. \/ link' = link
        \/ link' = PushedTo("server", ping)
        \/ link' = PushedTo(Peer(e), answer[e])
        \/ link' = PushedTo(Peer(e), packed[e])
        \/ Receives(e, "data") /\ link' = Popped(e)
    BY DEF PushPing, PushAnswer, RefuseAnswer, PackData, PushData, OnRecvData, ReloadCrypto
  <2>2. answer[e] \in G /\ packed[e] \in G /\ ping \in G
    BY <1>2
  <2> QED
    BY <2>1, <2>2, <1>2, <1>4, <1>5
<1>8. answer' \in [Ends -> G]
  BY <1>2, <1>3 DEF PushPing, PushAnswer, RefuseAnswer, PackData, PushData,
                    OnRecvData, ReloadCrypto
<1>9. ping' \in G
  BY <1>2, <1>3 DEF PushPing, PushAnswer, RefuseAnswer, PackData, PushData,
                    OnRecvData, ReloadCrypto
<1>10. packed' \in [Ends -> G]
  BY <1>2, <1>3, <1>6 DEF PushPing, PushAnswer, RefuseAnswer, PackData, PushData,
                          OnRecvData, ReloadCrypto
<1>11. MessagesOK(num)'
  BY <1>1, <1>7, <1>8, <1>9, <1>10 DEF MessagesOK, G
<1>12. allow' \in [Ends -> SUBSET Algs]
  BY DEF PushPing, PushAnswer, RefuseAnswer, PackData, PushData,
         OnRecvData, ReloadCrypto, Numbered, ContextsOK
<1>13. used' \in [keys : Nat, data : Nat, refused : Nat, reloads : Nat]
  <2>1. used' \in {used, [used EXCEPT !.refused = @ + 1], [used EXCEPT !.data = @ + 1],
                   [used EXCEPT !.reloads = @ + 1]}
    BY DEF PushPing, PushAnswer, RefuseAnswer, PackData, PushData, OnRecvData, ReloadCrypto
  <2>2. used \in [keys : Nat, data : Nat, refused : Nat, reloads : Nat]
    BY DEF Numbered, ContextsOK
  <2> QED
    BY ONLY <2>1, <2>2
<1> QED
  BY <1>11, <1>12, <1>13 DEF Numbered, ContextsOK

\* Steps in which the client takes a new sequence and a new key pair.
LEMMA ClientStartNumbered ==
  ASSUME NEW num, Numbered(num), SendRegister \/ SendPing
  PROVE  SessionInv'
<1> DEFINE c == ctx["client"]
           made == HandshakeGenerateSelfKey(c, 0, used.keys + 1)
           hsMade == HandshakeWriteSelfPublicKey(made, allow["client"])
<1>0. PICK other : other = [num EXCEPT ![c.seq + 1] = used.keys + 1]
  OBVIOUS
<1> DEFINE G == Agreed(num)
           H == Agreeing(other, made.seq, made.kx)
<1>1. \A kind \in {"register", "ping"}, hs \in {NoHandshake, hsMade} :
        Message(kind, hs, TRUE, Plain) \in H
  BY <1>0, ClientNumbers
<1>2. /\ other \in [Nat -> Nat] /\ made \in AnyContext
      /\ made.kx = NoKx => made.self = 0
      /\ G \subseteq H /\ ServerAgrees(other, ctx["server"], made.seq, made.kx)
  BY <1>0, ClientNumbers
<1>3. /\ ctx \in [Ends -> AnyContext] /\ link \in [Ends -> Seq(G)] /\ answer \in [Ends -> G]
      /\ ping \in G /\ packed \in [Ends -> G] /\ allow \in [Ends -> SUBSET Algs]
      /\ used \in [keys : Nat, data : Nat, refused : Nat, reloads : Nat]
  BY DEF Numbered, MessagesOK, ContextsOK
<1>4. /\ link \in [Ends -> Seq(H)] /\ answer \in [Ends -> H]
      /\ ping \in H /\ packed \in [Ends -> H]
  <2> HIDE DEF G, H
  <2>1. G \subseteq H
    BY <1>2
  <2>2. [Ends -> Seq(G)] \subseteq [Ends -> Seq(H)] /\ [Ends -> G] \subseteq [Ends -> H]
    BY ONLY <2>1, MessagesGrow
  <2> QED
    BY ONLY <2>1, <2>2, <1>3
<1> HIDE DEF G, H, made, hsMade
<1>5. ASSUME ctx' = [ctx EXCEPT !["client"] = made],
             used' = [used EXCEPT !.keys = @ + 1], allow' = allow,
             link' \in [Ends -> Seq(H)], answer' = answer, ping' \in H, packed' = packed
      PROVE  SessionInv'
  <2>1. ctx'["client"] = made /\ ctx'["server"] = ctx["server"]
    BY <1>3, <1>5, EndsFacts DEF Ends
  <2>2. ContextsOK'
    <3>1. ctx' \in [Ends -> AnyContext]
      BY <1>2, <1>3, <1>5
    <3>2. used' \in [keys : Nat, data : Nat, refused : Nat, reloads : Nat]
      <4>1. used \in [keys : Nat, data : Nat, refused : Nat, reloads : Nat]
        BY <1>3
      <4>2. used' = [used EXCEPT !.keys = @ + 1]
        BY <1>5
      <4> QED
        BY ONLY <4>1, <4>2
    <3> QED
      BY <3>1, <3>2, <2>1, <1>2, <1>3, <1>5 DEF ContextsOK
  <2>3. MessagesOK(other)'
    BY <1>4, <1>5, <2>1 DEF MessagesOK, Agreed, H
  <2>4. Numbered(other)'
    <3>1. ServerAgrees(other, ctx["server"], ctx["client"].seq, ctx["client"].kx)'
      BY <2>1, <1>2 DEF ServerAgrees
    <3> QED
      BY <2>2, <2>3, <3>1, <1>2 DEF Numbered
  <2> QED
    BY <2>4 DEF SessionInv
<1>6. CASE SendPing
  <2>1. /\ ctx' = [ctx EXCEPT !["client"] = made] /\ used' = [used EXCEPT !.keys = @ + 1]
        /\ allow' = allow /\ link' = link /\ answer' = answer /\ packed' = packed
        /\ ping' \in {Message("ping", NoHandshake, TRUE, Plain),
                      Message("ping", hsMade, TRUE, Plain)}
    BY <1>6 DEF SendPing, made, hsMade
  <2> QED
    BY <2>1, <1>1, <1>4, <1>5
<1>7. CASE SendRegister /\ GetCryptoKeyExchangeAlgorithm(c) # NoKx
  <2>1. /\ ctx' = [ctx EXCEPT !["client"] = made] /\ used' = [used EXCEPT !.keys = @ + 1]
        /\ allow' = allow /\ answer' = answer /\ packed' = packed /\ ping' = ping
        /\ link' = PushedTo("server", Message("register", hsMade, TRUE, Plain))
    BY <1>7 DEF SendRegister, made, hsMade
  <2>2. link' \in [Ends -> Seq(H)]
    BY <2>1, <1>1, <1>4, PushFacts, EndsFacts
  <2> QED
    BY <2>1, <2>2, <1>4, <1>5
<1>8. CASE SendRegister /\ GetCryptoKeyExchangeAlgorithm(c) = NoKx
  <2>1. /\ ctx' = ctx /\ used' = used /\ allow' = allow
        /\ answer' = answer /\ packed' = packed /\ ping' = ping
        /\ link' = PushedTo("server", Message("register", NoHandshake, TRUE, Plain))
    BY <1>8 DEF SendRegister
  <2>2. Message("register", NoHandshake, TRUE, Plain) \in G
    BY SilentAgrees, ConstantFacts DEF G, Agreed, Kinds
  <2>3. link' \in [Ends -> Seq(G)]
    BY <2>1, <2>2, <1>3, PushFacts, EndsFacts
  <2>4. G' = G
    BY <2>1 DEF G, Agreed
  <2>5. MessagesOK(num)'
    BY <2>1, <2>3, <2>4, <1>3 DEF MessagesOK, G
  <2>6. Numbered(num)'
    BY <2>1, <2>5 DEF Numbered, ContextsOK
  <2> QED
    BY <2>6 DEF SessionInv
<1> QED
  BY <1>6, <1>7, <1>8

\* Steps of the server's readLoop that make or confirm a key pair.
LEMMA ServerStepNumbered ==
  ASSUME NEW num, Numbered(num),
         OnRecvNodeRegisterReq \/ OnRecvNodePing \/ OnRecvHandshakeConfirm
  PROVE  /\ Numbered(num)'
         /\ ctx["server"].pending /\ ~ctx'["server"].pending
              => \/ ctx["server"].staged = Plain
                 \/ Head(link["server"]).hs.pub \in ctx["server"].staged.key
<1> DEFINE s == ctx["server"]
           last == ctx["client"].seq
           kx == ctx["client"].kx
           m == Head(link["server"])
           G == Agreed(num)
<1>1. /\ ctx \in [Ends -> AnyContext] /\ link \in [Ends -> Seq(G)] /\ answer \in [Ends -> G]
      /\ ping \in G /\ packed \in [Ends -> G] /\ allow \in [Ends -> SUBSET Algs]
      /\ num \in [Nat -> Nat] /\ ServerAgrees(num, s, last, kx) /\ s \in AnyContext
      /\ allow["server"] \in SUBSET Algs
  BY EndsFacts DEF Numbered, MessagesOK, ContextsOK
<1>2. PICK kind \in {"register", "ping", "confirm"} : Receives("server", kind)
  BY DEF OnRecvNodeRegisterReq, OnRecvNodePing, OnRecvHandshakeConfirm
<1>3. m \in G /\ m.kind = kind /\ Popped("server") \in [Ends -> Seq(G)]
  <2> HIDE DEF G
  <2> QED
    BY <1>1, <1>2, PopFacts, EndsFacts
<1>4. ASSUME NEW after, after \in AnyContext, ServerAgrees(num, after, last, kx),
             ctx' = [ctx EXCEPT !["server"] = after], allow' = allow, used' = used,
             link' \in [Ends -> Seq(G)], answer' \in [Ends -> G],
             ping' = ping, packed' = packed
      PROVE  Numbered(num)' /\ ctx'["server"] = after
  <2>1. ctx'["client"] = ctx["client"] /\ ctx'["server"] = after
    BY <1>1, <1>4, EndsFacts DEF Ends
  <2>2. ContextsOK'
    BY <1>1, <1>4, <2>1 DEF Numbered, ContextsOK
  <2>3. G' = G
    BY <2>1 DEF Agreed
  <2>4. MessagesOK(num)'
    BY <1>1, <1>4, <2>3 DEF MessagesOK
  <2>5. ServerAgrees(num, ctx["server"], ctx["client"].seq, ctx["client"].kx)'
    BY <1>4, <2>1 DEF ServerAgrees
  <2> QED
    BY <2>1, <2>2, <2>4, <2>5, <1>1 DEF Numbered
<1>5. ASSUME kind \in {"register", "ping"},
             NEW after, after \in {s, ServerNegotiate(s, m.hs)},
             after = s \/ CarriesHandshake(m)
      PROVE  /\ after \in AnyContext /\ ServerAgrees(num, after, last, kx)
             /\ s.pending => after.pending
  <2>1. CASE after = s
    BY <2>1, <1>1
  <2>2. CASE CarriesHandshake(m) /\ after = ServerNegotiate(s, m.hs)
    <3> DEFINE hs == m.hs
    <3>1. /\ hs \in AnyHandshake /\ hs.seq # 0 /\ hs.seq <= last /\ hs.kx = kx
          /\ hs.pub = num[hs.seq]
      BY <2>2, <1>3, <1>5 DEF Agreed, Agreeing, AnyMessage, CarriesHandshake
    <3> HIDE DEF hs, last, kx, s
    <3>2. after = ServerNegotiate(s, hs)
      BY <2>2 DEF hs
    <3> QED
      BY <3>1, <3>2, <1>1, ServerNegotiates
  <2> QED
    BY <2>1, <2>2, <1>5
<1>6. CASE OnRecvHandshakeConfirm
  <2> DEFINE after == ConfirmHandshake(s, m.hs.seq)
  <2>1. /\ ctx' = [ctx EXCEPT !["server"] = after] /\ link' = Popped("server")
        /\ UNCHANGED <<allow, used, answer, ping, packed>>
    BY <1>6 DEF OnRecvHandshakeConfirm
  <2>2. m.kind = "confirm"
    BY <1>6 DEF OnRecvHandshakeConfirm, Receives
  <2>3. m.hs.seq # 0 /\ m.hs.seq <= last /\ m.hs.pub = MaxKeys + num[m.hs.seq]
    BY <2>2, <1>3 DEF Agreed, Agreeing
  <2>4. /\ after \in AnyContext /\ after.kx = s.kx /\ after.hsSeq = s.hsSeq
        /\ after.self = s.self /\ (after = s \/ ~after.pending)
        /\ s.pending /\ ~after.pending => s.hsSeq = m.hs.seq
    BY <1>1, ConfirmFacts
  <2> HIDE DEF after
  <2>5. ServerAgrees(num, after, last, kx)
    BY <2>4, <1>1 DEF ServerAgrees
  <2>6. Numbered(num)' /\ ctx'["server"] = after
    BY <2>1, <2>4, <2>5, <1>1, <1>3, <1>4
  <2>7. s.pending /\ ~after.pending => s.staged = Plain \/ m.hs.pub \in s.staged.key
    BY <2>3, <2>4, <1>1 DEF ServerAgrees
  <2> QED
    BY <2>6, <2>7
<1>7. CASE OnRecvNodePing
  <2> DEFINE negotiates == CarriesHandshake(m) /\ phase["server"] = "registered"
             after == IF negotiates THEN ServerNegotiate(s, m.hs) ELSE s
             hs == IF negotiates /\ ServerAccepts(s, m.hs)
                   THEN HandshakeWriteSelfPublicKey(after, Selected(after)) ELSE NoHandshake
  <2>1. /\ ctx' = [ctx EXCEPT !["server"] = after] /\ link' = Popped("server")
        /\ answer' = [answer EXCEPT !["server"] = Message("pong", hs, TRUE, Plain)]
        /\ UNCHANGED <<allow, used, ping, packed>>
    BY <1>7 DEF OnRecvNodePing
  <2>2. m.kind = "ping"
    BY <1>7 DEF OnRecvNodePing, Receives
  <2>3. /\ after \in AnyContext /\ ServerAgrees(num, after, last, kx)
        /\ s.pending => after.pending
    BY <2>2, <1>3, <1>5
  <2>4. Message("pong", hs, TRUE, Plain) \in G
    <3> HIDE DEF after, last, kx
    <3> QED
      BY <2>3, ServerAnswers DEF Agreed, last, kx
  <2> HIDE DEF after, hs
  <2>5. answer' \in [Ends -> G]
    BY <2>1, <2>4, <1>1
  <2>6. Numbered(num)' /\ ctx'["server"] = after
    BY <2>1, <2>3, <2>5, <1>3, <1>4
  <2> QED
    BY <2>3, <2>6
<1>8. CASE OnRecvNodeRegisterReq
  <2>1. PICK token \in BOOLEAN, accepted \in BOOLEAN :
         LET negotiates == token /\ CarriesHandshake(m)
             after == IF negotiates THEN ServerNegotiate(s, m.hs) ELSE s
             hs == IF GetCryptoKeyExchangeAlgorithm(after) # NoKx
                   THEN HandshakeWriteSelfPublicKey(after, Selected(after))
                   ELSE NoHandshake
             denial == Message("register_rsp", NoHandshake, FALSE, Plain)
         IN  /\ ctx' = [ctx EXCEPT !["server"] = after]
             /\ IF token /\ accepted /\ (negotiates => ServerAccepts(s, m.hs))
                THEN /\ phase' = [phase EXCEPT !["server"] = "registered"]
                     /\ answer' = [answer EXCEPT !["server"] =
                                     Message("register_rsp", hs, TRUE, Plain)]
                     /\ link' = Popped("server")
                ELSE /\ link' = [Popped("server") EXCEPT !["client"] = @ \o <<denial, denial>>]
                     /\ UNCHANGED <<phase, answer>>
    BY <1>8 DEF OnRecvNodeRegisterReq
  <2> DEFINE negotiates == token /\ CarriesHandshake(m)
             after == IF negotiates THEN ServerNegotiate(s, m.hs) ELSE s
             hs == IF GetCryptoKeyExchangeAlgorithm(after) # NoKx
                   THEN HandshakeWriteSelfPublicKey(after, Selected(after))
                   ELSE NoHandshake
             denial == Message("register_rsp", NoHandshake, FALSE, Plain)
             granted == Message("register_rsp", hs, TRUE, Plain)
             denied == [Popped("server") EXCEPT !["client"] = @ \o <<denial, denial>>]
  <2>2. /\ ctx' = [ctx EXCEPT !["server"] = after]
        /\ \/ answer' = [answer EXCEPT !["server"] = granted] /\ link' = Popped("server")
           \/ answer' = answer /\ link' = denied
        /\ UNCHANGED <<allow, used, ping, packed>>
    BY <2>1, <1>8 DEF OnRecvNodeRegisterReq
  <2>3. m.kind = "register"
    BY <1>8 DEF OnRecvNodeRegisterReq, Receives
  <2>4. /\ after \in AnyContext /\ ServerAgrees(num, after, last, kx)
        /\ s.pending => after.pending
    BY <2>3, <1>3, <1>5
  <2>5. granted \in G
    <3> HIDE DEF after, last, kx
    <3> QED
      BY <2>4, ServerAnswers DEF Agreed, last, kx
  <2>6. denial \in G
    BY SilentAgrees, ConstantFacts DEF Agreed, Kinds
  <2> HIDE DEF after, granted, denial, G
  <2>7. denied \in [Ends -> Seq(G)]
    <3>1. Popped("server")["client"] \in Seq(G)
      BY <1>3, EndsFacts
    <3>2. <<denial, denial>> \in Seq(G)
      BY <2>6
    <3>3. Popped("server")["client"] \o <<denial, denial>> \in Seq(G)
      BY <3>1, <3>2, ConcatProperties
    <3> QED
      BY <3>3, <1>3
  <2>8. answer' \in [Ends -> G] /\ link' \in [Ends -> Seq(G)]
    BY <2>2, <2>5, <2>7, <1>1, <1>3
  <2>9. Numbered(num)' /\ ctx'["server"] = after
    BY <2>2, <2>4, <2>8, <1>4
  <2> QED
    BY <2>4, <2>9
<1> QED
  BY <1>6, <1>7, <1>8

\* Steps of the client's readLoop: an answer's key pair is confirmed.
LEMMA ClientStepNumbered ==
  ASSUME NEW num, Numbered(num), OnRecvNodeRegisterRsp \/ OnRecvNodePong
  PROVE  Numbered(num)' /\ ctx'["server"] = ctx["server"]
<1> DEFINE c == ctx["client"]
           s == ctx["server"]
           m == Head(link["client"])
           after == GetNextSequence(HandshakeReadPeerKey(c, m.hs, allow["client"], FALSE))
           G == Agreed(num)
           H == Agreeing(num, after.seq, after.kx)
<1>1. /\ ctx \in [Ends -> AnyContext] /\ link \in [Ends -> Seq(G)] /\ answer \in [Ends -> G]
      /\ ping \in G /\ packed \in [Ends -> G] /\ allow \in [Ends -> SUBSET Algs]
      /\ num \in [Nat -> Nat] /\ ServerAgrees(num, s, c.seq, c.kx)
      /\ c \in AnyContext /\ s \in AnyContext /\ allow["client"] \in SUBSET Algs
      /\ (c.kx = NoKx => c.self = 0)
  BY EndsFacts DEF Numbered, MessagesOK, ContextsOK
<1>2. PICK kind \in {"register_rsp", "pong"} : Receives("client", kind)
  BY DEF OnRecvNodeRegisterRsp, OnRecvNodePong
<1>3. m \in G /\ m.kind = kind /\ Popped("client") \in [Ends -> Seq(G)]
  <2> HIDE DEF G
  <2> QED
    BY <1>1, <1>2, PopFacts, EndsFacts
<1>4. /\ link' = Popped("client") /\ UNCHANGED <<allow, used, ping, packed>>
      /\ \/ CarriesHandshake(m) /\ ClientNegotiate(m)
         \/ UNCHANGED <<ctx, answer>>
  BY DEF OnRecvNodeRegisterRsp, OnRecvNodePong
<1>5. CASE UNCHANGED <<ctx, answer>>
  <2>1. G' = G
    BY <1>5 DEF Agreed
  <2>2. MessagesOK(num)'
    BY <2>1, <1>1, <1>3, <1>4, <1>5 DEF MessagesOK
  <2> QED
    BY <2>2, <1>4, <1>5 DEF Numbered, ContextsOK
<1>6. CASE CarriesHandshake(m) /\ ClientNegotiate(m)
  <2> DEFINE hs == m.hs
             allowed == allow["client"]
  <2>1. /\ hs \in AnyHandshake /\ hs.seq # 0 /\ hs.seq <= c.seq
        /\ hs.pub = MaxKeys + num[hs.seq]
    BY <1>3, <1>6 DEF Agreed, Agreeing, AnyMessage, CarriesHandshake
  <2>2. after = GetNextSequence(HandshakeReadPeerKey(c, hs, allowed, FALSE))
    OBVIOUS
  <2>3. allowed \in SUBSET Algs
    BY <1>1
  <2>4. /\ after \in AnyContext /\ (after.kx = NoKx => after.self = 0) /\ G \subseteq H
        /\ Message("confirm", hs, TRUE, Plain) \in H
        /\ ServerAgrees(num, s, after.seq, after.kx)
    <3>1. Agreeing(num, c.seq, c.kx) = G
      BY DEF Agreed
    <3>2. /\ num \in [Nat -> Nat] /\ c \in AnyContext /\ s \in AnyContext
          /\ (c.kx = NoKx => c.self = 0) /\ ServerAgrees(num, s, c.seq, c.kx)
      BY <1>1
    <3> HIDE DEF after, hs, allowed, c, s, G
    <3>3. /\ after \in AnyContext /\ (after.kx = NoKx => after.self = 0)
          /\ Agreeing(num, c.seq, c.kx) \subseteq Agreeing(num, after.seq, after.kx)
          /\ Message("confirm", hs, TRUE, Plain) \in Agreeing(num, after.seq, after.kx)
          /\ ServerAgrees(num, s, after.seq, after.kx)
      BY ONLY <2>1, <2>2, <2>3, <3>2, ClientConfirms, ZenonT(60)
    <3> QED
      BY <3>1, <3>3
  <2>5. /\ ctx' = [ctx EXCEPT !["client"] = after]
        /\ answer' = [answer EXCEPT !["client"] = Message("confirm", hs, TRUE, Plain)]
    BY <1>6 DEF ClientNegotiate
  <2> HIDE DEF after, hs, G, H
  <2>6. ctx'["client"] = after /\ ctx'["server"] = s /\ ctx' \in [Ends -> AnyContext]
    BY <2>4, <2>5, <1>1, EndsFacts DEF Ends
  <2>7. /\ Popped("client") \in [Ends -> Seq(H)] /\ answer \in [Ends -> H]
        /\ ping \in H /\ packed \in [Ends -> H]
    <3>1. G \subseteq H
      BY <2>4
    <3>2. [Ends -> Seq(G)] \subseteq [Ends -> Seq(H)] /\ [Ends -> G] \subseteq [Ends -> H]
      BY ONLY <3>1, MessagesGrow
    <3> QED
      BY ONLY <3>1, <3>2, <1>1, <1>3
  <2>8. answer' \in [Ends -> H]
    BY <2>4, <2>5, <2>7
  <2>9. ContextsOK'
    BY <2>4, <2>6, <1>4 DEF Numbered, ContextsOK
  <2>10. MessagesOK(num)'
    BY <2>6, <2>7, <2>8, <1>4 DEF MessagesOK, Agreed, H
  <2>11. ServerAgrees(num, ctx["server"], ctx["client"].seq, ctx["client"].kx)'
    BY <2>4, <2>6 DEF ServerAgrees
  <2> QED
    BY <2>6, <2>9, <2>10, <2>11, <1>1 DEF Numbered
<1> QED
  BY <1>4, <1>5, <1>6

\* What ConfirmMatchesAnswer says of one step.
ConfirmStep ==
    (ctx["server"].pending /\ ~ctx["server"].pending')
      => \/ ctx["server"].staged = Plain
         \/ Head(link["server"]).hs.pub \in ctx["server"].staged.key

\* Every step keeps a numbering and confirms only what matches.
LEMMA NextNumbered == SessionInv /\ [Next]_vars => SessionInv' /\ [ConfirmStep]_vars
<1> SUFFICES ASSUME NEW num, Numbered(num), [Next]_vars
             PROVE  SessionInv' /\ [ConfirmStep]_vars
  BY DEF SessionInv
<1>1. CASE UNCHANGED vars
  <2>1. Numbered(num)'
    BY <1>1 DEF vars, Numbered, ContextsOK, MessagesOK, Agreed, Agreeing, ServerAgrees
  <2> QED
    BY <2>1, <1>1 DEF SessionInv
<1>2. CASE SendRegister \/ SendPing
  <2>1. ctx'["server"] = ctx["server"]
    BY <1>2, EndsFacts DEF SendRegister, SendPing, Numbered, ContextsOK, Ends
  <2> QED
    BY <2>1, <1>2, ClientStartNumbered DEF ConfirmStep
<1>3. CASE OnRecvNodeRegisterReq \/ OnRecvNodePing \/ OnRecvHandshakeConfirm
  BY <1>3, ServerStepNumbered DEF SessionInv, ConfirmStep
<1>4. CASE OnRecvNodeRegisterRsp \/ OnRecvNodePong
  BY <1>4, ClientStepNumbered DEF SessionInv, ConfirmStep
<1>5. ASSUME NEW e \in Ends,
             PushPing \/ PushAnswer(e) \/ RefuseAnswer(e) \/ PackData(e) \/ PushData(e)
               \/ OnRecvData(e) \/ ReloadCrypto(e)
      PROVE  SessionInv' /\ [ConfirmStep]_vars
  <2>1. ctx' = ctx
    BY <1>5 DEF PushPing, PushAnswer, RefuseAnswer, PackData, PushData, OnRecvData, ReloadCrypto
  <2> QED
    BY <2>1, <1>5, QuietNumbered DEF SessionInv, ConfirmStep
<1> QED
  BY <1>1, <1>2, <1>3, <1>4, <1>5, EndsFacts DEF Next

\* A numbering exists in every reachable state.
THEOREM SessionNumbered == Spec => []SessionInv
  BY InitNumbered, NextNumbered, PTL DEF Spec

\* ConfirmHandshake promotes a staged cipher only for the answer the client has
\* read and confirmed, for any number of overlapping or refused handshakes.
THEOREM SessionConfirmMatchesAnswer == Spec => ConfirmMatchesAnswer
<1>1. [ConfirmStep]_vars <=>
        [(ctx["server"].pending /\ ~ctx["server"].pending')
           => \/ ctx["server"].staged = Plain
              \/ Head(link["server"]).hs.pub \in ctx["server"].staged.key]_vars
  BY DEF ConfirmStep
<1> QED
  BY <1>1, NextNumbered, SessionNumbered, PTL DEF Spec, ConfirmMatchesAnswer

----------------------------------------------------------------------------
(* What an undisturbed handshake has under way.                            *)

Client == ctx["client"]
Server == ctx["server"]
ToServer == link["server"]
ToClient == link["client"]

\* The messages that start a registration, that offer a key, and that confirm
\* one.
Registers == {m \in AnyMessage : m.kind = "register"}
Carriers == {m \in AnyMessage : CarriesHandshake(m)}
Confirms == {m \in AnyMessage : IsConfirm(m)}

\* Where messages of a kind are in a link.
Has(q, T) == \E i \in 1..Len(q) : q[i] \in T
Once(q, T) == \A i, j \in 1..Len(q) : q[i] \in T /\ q[j] \in T => i = j
Precede(q, T, U) == \A i, j \in 1..Len(q) : q[i] \in T /\ q[j] \in U => i < j
Within(q, T, G) == \A i \in 1..Len(q) : q[i] \in T => q[i] \in G

\* Every data message of a link can be read with the receive cipher its
\* receiver will have when it comes to it: the old one, or the new one once a
\* message in T has been handled.
Readable(m, cipher) == m.cipher.alg = NoneAlg \/ m.cipher = cipher
Before(q, i, T) == \E j \in 1..Len(q) : j < i /\ q[j] \in T
Splits(q, T, old, new) ==
    \A i \in 1..Len(q) : q[i].kind = "data" =>
        /\ Before(q, i, T) => Readable(q[i], new)
        /\ ~Before(q, i, T) => Readable(q[i], old)

\* The request, the reply and the confirmation of the one handshake under way
\* between a client c and a server s. A reply names what the server writes with
\* already.
Requests(c) ==
    {m \in AnyMessage :
        /\ m.hs.kx = c.kx /\ m.hs.pub = c.self /\ c.self # 0
        /\ m.kind = "ping" => c.write.alg # NoneAlg}
Replies(c, s) ==
    {m \in AnyMessage :
        /\ m.ok = TRUE /\ m.hs.kx = c.kx /\ m.hs.pub = s.self /\ m.hs.seq = s.hsSeq
        /\ s.pending = TRUE /\ s.staged = s.write
        /\ m.kind = "pong" => c.write.alg # NoneAlg
        /\ \/ m.hs.algs = {} /\ s.write = Plain
           \/ \E a \in AnyAlg : /\ a # NoneAlg /\ m.hs.algs = {a}
                                /\ s.write = [alg |-> a, key |-> {c.self, s.self}]}
Confirmations(c, s) ==
    {m \in AnyMessage :
        /\ m.hs.seq = s.hsSeq /\ s.pending = TRUE
        /\ s.staged = c.write /\ s.write = c.read}

\* One handshake at most is under way: as the ping p that Poll is about to push,
\* on the link L to the server, as the server's answer as, on the link M to the
\* client, or as the client's answer ac. The confirmation of the one before can
\* only be ahead of the request of the next.
CleanState(c, s, L, M, p, as, ac) ==
    /\ p \in Carriers =>
         ~Has(L, Carriers) /\ as \notin Carriers /\ ~Has(M, Carriers) /\ ac = Nothing
    /\ Has(L, Carriers) => as \notin Carriers /\ ~Has(M, Carriers) /\ ac = Nothing
    /\ as \in Carriers => ~Has(M, Carriers) /\ ac = Nothing
    /\ Has(M, Carriers) => ac = Nothing
    /\ Has(L, Confirms) => as \notin Carriers /\ ~Has(M, Carriers) /\ ac = Nothing
    /\ Once(L, Carriers) /\ Once(M, Carriers) /\ Once(L, Confirms)
    /\ Precede(L, Confirms, Carriers)
    /\ p \in Carriers => p \in Requests(c)
    /\ Within(L, Carriers, Requests(c))
    /\ as \in Carriers => as \in Replies(c, s)
    /\ Within(M, Carriers, Replies(c, s))
    /\ ac # Nothing => ac \in Confirmations(c, s)
    /\ Within(L, Confirms, Confirmations(c, s))

\* What the server writes the client reads, unless a reply is under way; what
\* the client writes the server reads, unless a confirmation is; and what is on
\* the links can be read when its time comes.
CalmState(c, s, L, M, as, ac) ==
    /\ as \notin Carriers /\ ~Has(M, Carriers) => s.write = c.read
    /\ ~Has(L, Confirms) /\ ac = Nothing => s.read = c.write
    /\ Splits(L, Confirms, s.read, s.staged)
    /\ Splits(M, Carriers, c.read, s.write)

\* Each goroutine pushes messages of its own kinds.
Roles ==
    /\ answer["client"] = Nothing \/ answer["client"].kind = "confirm"
    /\ answer["server"] = Nothing \/ answer["server"].kind \in {"register_rsp", "pong"}
    /\ ping = Nothing \/ ping.kind = "ping"
    /\ \A e \in Ends : packed[e] = Nothing \/ packed[e].kind = "data"

\* Before the server has accepted the registration there is nothing but the
\* request, or the two denials.
Denials == {m \in AnyMessage : m.kind = "register_rsp" /\ m.ok = FALSE} \ Carriers
Early ==
    phase["server"] = "new" =>
      /\ phase["client"] # "registered" /\ ping = Nothing
      /\ \A e \in Ends : answer[e] = Nothing /\ packed[e] = Nothing
      /\ ToServer \in Seq(Registers) /\ ToClient \in Seq(Denials)

\* Until then nothing has changed a cipher.
Opening ==
    /\ phase["client"] = "new" => ToServer = <<>> /\ ToClient = <<>>
    /\ Has(ToServer, Registers) \/ phase["client"] = "new" =>
         /\ phase["server"] = "new" /\ Server.kxUsed = NoKx
         /\ Server.write = Client.read /\ Server.read = Client.write
    /\ Once(ToServer, Registers)

Flow ==
    /\ phase \in [Ends -> Phases] /\ spoiled \in BOOLEAN /\ garbled \in BOOLEAN
    /\ Roles /\ Early /\ Opening

Clean ==
    ~spoiled => CleanState(Client, Server, ToServer, ToClient, ping,
                           answer["server"], answer["client"])
Calm ==
    causes = {} =>
      /\ ~spoiled /\ ~garbled
      /\ phase["server"] # "new" =>
           CalmState(Client, Server, ToServer, ToClient, answer["server"], answer["client"])

\* The inductive invariant of the two theorems below, with SessionInv.
HandshakeInv == SessionInv /\ Flow /\ Clean /\ Calm

----------------------------------------------------------------------------
(* Links that grow and shrink.                                             *)

\* A pushed message is the last of its link.
LEMMA LinkAppend ==
  ASSUME NEW q \in Seq(AnyMessage), NEW m \in AnyMessage, NEW r, r = Append(q, m)
  PROVE  /\ r \in Seq(AnyMessage) /\ Len(q) \in Nat /\ Len(r) = Len(q) + 1
         /\ \A i \in 1..Len(q) : r[i] = q[i]
         /\ r[Len(q) + 1] = m
BY AppendProperties

\* What is read was the first of its link.
LEMMA LinkTail ==
  ASSUME NEW q \in Seq(AnyMessage), q # <<>>, NEW r, r = Tail(q)
  PROVE  /\ r \in Seq(AnyMessage) /\ Len(r) \in Nat /\ Len(q) = Len(r) + 1
         /\ \A i \in 1..Len(r) : r[i] = q[i + 1]
         /\ Head(q) = q[1] /\ Head(q) \in AnyMessage
<1>1. Len(q) \in Nat /\ Len(q) # 0 /\ Head(q) = q[1]
  BY EmptySeq
<1>2. Head(q) \in AnyMessage /\ r \in Seq(AnyMessage) /\ Len(r) = Len(q) - 1
      /\ \A i \in 1..Len(r) : r[i] = q[i + 1]
  BY <1>1, HeadTailProperties
<1> QED BY <1>1, <1>2

\* What a pushed message means for the whereabouts of a kind.
LEMMA AppendHas ==
  ASSUME NEW q \in Seq(AnyMessage), NEW m \in AnyMessage, NEW T
  PROVE  /\ Has(Append(q, m), T) <=> Has(q, T) \/ m \in T
         /\ Once(q, T) /\ (m \in T => ~Has(q, T)) => Once(Append(q, m), T)
         /\ \A G : Within(q, T, G) /\ (m \in T => m \in G) => Within(Append(q, m), T, G)
<1> DEFINE r == Append(q, m)
<1>1. /\ r \in Seq(AnyMessage) /\ Len(q) \in Nat /\ Len(r) = Len(q) + 1
      /\ \A i \in 1..Len(q) : r[i] = q[i]
      /\ r[Len(q) + 1] = m
  BY LinkAppend
<1> HIDE DEF r
<1>2. \A i \in 1..Len(r) : i \in 1..Len(q) \/ i = Len(q) + 1
  BY <1>1
<1>3. 1..Len(q) \subseteq 1..Len(r) /\ Len(q) + 1 \in 1..Len(r)
  BY <1>1
<1>4. Has(r, T) <=> Has(q, T) \/ m \in T
  BY <1>1, <1>2, <1>3 DEF Has
<1>5. Once(q, T) /\ (m \in T => ~Has(q, T)) => Once(r, T)
  BY <1>1, <1>2 DEF Has, Once
<1>6. ASSUME NEW G, Within(q, T, G), m \in T => m \in G PROVE Within(r, T, G)
  BY <1>1, <1>2, <1>6 DEF Within
<1> QED BY <1>4, <1>5, <1>6 DEF r

\* The same for the order of two kinds.
LEMMA AppendPrecede ==
  ASSUME NEW q \in Seq(AnyMessage), NEW m \in AnyMessage, NEW T, NEW U,
         Precede(q, T, U), m \notin T \/ (~Has(q, U) /\ m \notin U)
  PROVE  Precede(Append(q, m), T, U)
<1> DEFINE r == Append(q, m)
<1>1. /\ r \in Seq(AnyMessage) /\ Len(q) \in Nat /\ Len(r) = Len(q) + 1
      /\ \A i \in 1..Len(q) : r[i] = q[i]
      /\ r[Len(q) + 1] = m
  BY LinkAppend
<1> HIDE DEF r
<1>2. \A i \in 1..Len(r) : i \in 1..Len(q) \/ i = Len(q) + 1
  BY <1>1
<1>3. Precede(r, T, U)
  <2> SUFFICES ASSUME NEW i \in 1..Len(r), NEW j \in 1..Len(r), r[i] \in T, r[j] \in U
               PROVE  i < j
    BY DEF Precede
  <2>1. CASE i \in 1..Len(q) /\ j \in 1..Len(q)
    BY <1>1, <2>1 DEF Precede
  <2>2. CASE i \in 1..Len(q) /\ j = Len(q) + 1
    BY <1>1, <2>2
  <2>3. CASE i = Len(q) + 1
    BY <1>1, <1>2, <2>3 DEF Has
  <2> QED BY <1>2, <2>1, <2>2, <2>3
<1> QED BY <1>3 DEF r

\* What is left when the first message was read.
LEMMA TailHas ==
  ASSUME NEW q \in Seq(AnyMessage), q # <<>>, NEW T
  PROVE  /\ Has(q, T) <=> Head(q) \in T \/ Has(Tail(q), T)
         /\ Once(q, T) => Once(Tail(q), T) /\ (Head(q) \in T => ~Has(Tail(q), T))
         /\ \A G : Within(q, T, G) =>
              Within(Tail(q), T, G) /\ (Head(q) \in T => Head(q) \in G)
         /\ \A U : Precede(q, T, U) =>
              Precede(Tail(q), T, U) /\ (Head(q) \in U => ~Has(q, T))
<1> DEFINE r == Tail(q)
<1>1. /\ r \in Seq(AnyMessage) /\ Len(r) \in Nat /\ Len(q) = Len(r) + 1
      /\ \A i \in 1..Len(r) : r[i] = q[i + 1]
      /\ Head(q) = q[1] /\ Head(q) \in AnyMessage
  BY LinkTail
<1> HIDE DEF r
<1>2. 1 \in 1..Len(q) /\ \A i \in 1..Len(r) : i + 1 \in 1..Len(q) /\ i + 1 # 1
  BY <1>1
<1>3. \A i \in 1..Len(q) : i = 1 \/ (i - 1 \in 1..Len(r) /\ r[i - 1] = q[i])
  BY <1>1
<1>4. Has(q, T) <=> Head(q) \in T \/ Has(r, T)
  BY <1>1, <1>2, <1>3 DEF Has
<1>5. ASSUME Once(q, T) PROVE Once(r, T) /\ (Head(q) \in T => ~Has(r, T))
  <2>1. Once(r, T)
    <3> SUFFICES ASSUME NEW i \in 1..Len(r), NEW j \in 1..Len(r), r[i] \in T, r[j] \in T
                 PROVE  i = j
      BY DEF Once
    <3>1. i + 1 = j + 1
      BY <1>1, <1>2, <1>5 DEF Once
    <3> QED BY <3>1
  <2>2. Head(q) \in T => ~Has(r, T)
    BY <1>1, <1>2, <1>5 DEF Once, Has
  <2> QED BY <2>1, <2>2
<1>6. ASSUME NEW G, Within(q, T, G)
      PROVE  Within(r, T, G) /\ (Head(q) \in T => Head(q) \in G)
  BY <1>1, <1>2, <1>6 DEF Within
<1>7. ASSUME NEW U, Precede(q, T, U)
      PROVE  Precede(r, T, U) /\ (Head(q) \in U => ~Has(q, T))
  <2>1. Precede(r, T, U)
    <3> SUFFICES ASSUME NEW i \in 1..Len(r), NEW j \in 1..Len(r), r[i] \in T, r[j] \in U
                 PROVE  i < j
      BY DEF Precede
    <3>1. i + 1 < j + 1
      BY <1>1, <1>2, <1>7 DEF Precede
    <3> QED BY <3>1
  <2>2. Head(q) \in U => ~Has(q, T)
    BY <1>1, <1>2, <1>7 DEF Precede, Has
  <2> QED BY <2>1, <2>2
<1> QED BY <1>4, <1>5, <1>6, <1>7 DEF r

\* A data message is pushed that can be read once all before it were.
LEMMA AppendSplits ==
  ASSUME NEW q \in Seq(AnyMessage), NEW m \in AnyMessage, NEW T, NEW old, NEW new,
         Splits(q, T, old, new),
         m.kind = "data" => /\ Has(q, T) => Readable(m, new)
                            /\ ~Has(q, T) => Readable(m, old)
  PROVE  Splits(Append(q, m), T, old, new)
<1> DEFINE r == Append(q, m)
<1>1. /\ r \in Seq(AnyMessage) /\ Len(q) \in Nat /\ Len(r) = Len(q) + 1
      /\ \A i \in 1..Len(q) : r[i] = q[i]
      /\ r[Len(q) + 1] = m
  BY LinkAppend
<1> HIDE DEF r
<1>2. ASSUME NEW i \in 1..Len(q) PROVE Before(r, i, T) <=> Before(q, i, T)
  <2>1. \A j \in 1..Len(r) : j < i => j \in 1..Len(q)
    BY <1>1
  <2>2. 1..Len(q) \subseteq 1..Len(r)
    BY <1>1
  <2> QED BY <1>1, <2>1, <2>2 DEF Before
<1>3. Before(r, Len(q) + 1, T) <=> Has(q, T)
  <2>1. \A j \in 1..Len(r) : j < Len(q) + 1 <=> j \in 1..Len(q)
    BY <1>1
  <2>2. 1..Len(q) \subseteq 1..Len(r)
    BY <1>1
  <2> QED BY <1>1, <2>1, <2>2 DEF Before, Has
<1>4. \A i \in 1..Len(r) : i \in 1..Len(q) \/ i = Len(q) + 1
  BY <1>1
<1>5. Splits(r, T, old, new)
  <2> SUFFICES ASSUME NEW i \in 1..Len(r), r[i].kind = "data"
               PROVE  /\ Before(r, i, T) => Readable(r[i], new)
                      /\ ~Before(r, i, T) => Readable(r[i], old)
    BY DEF Splits
  <2>1. CASE i \in 1..Len(q)
    BY <1>1, <1>2, <2>1 DEF Splits
  <2>2. CASE i = Len(q) + 1
    BY <1>1, <1>3, <2>2
  <2> QED BY <1>4, <2>1, <2>2
<1> QED BY <1>5 DEF r

\* The first message is read: a data message with the old cipher; and when it
\* changes the cipher, all that come after it can be read with the new one.
LEMMA TailSplits ==
  ASSUME NEW q \in Seq(AnyMessage), q # <<>>, NEW T, NEW old, NEW new,
         Splits(q, T, old, new)
  PROVE  /\ Head(q).kind = "data" => Readable(Head(q), old)
         /\ Head(q) \notin T => Splits(Tail(q), T, old, new)
         /\ Head(q) \in T /\ Once(q, T) => \A other : Splits(Tail(q), T, new, other)
<1> DEFINE r == Tail(q)
<1>1. /\ r \in Seq(AnyMessage) /\ Len(r) \in Nat /\ Len(q) = Len(r) + 1
      /\ \A i \in 1..Len(r) : r[i] = q[i + 1]
      /\ Head(q) = q[1] /\ Head(q) \in AnyMessage
  BY LinkTail
<1>2. Once(q, T) /\ Head(q) \in T => ~Has(r, T)
  BY TailHas
<1> HIDE DEF r
<1>3. 1 \in 1..Len(q) /\ \A i \in 1..Len(r) : i + 1 \in 1..Len(q) /\ 1 < i + 1
  BY <1>1
<1>4. Head(q).kind = "data" => Readable(Head(q), old)
  <2>1. ~Before(q, 1, T)
    BY <1>1 DEF Before
  <2> QED BY <1>1, <1>3, <2>1 DEF Splits
<1>5. ASSUME Head(q) \notin T, NEW i \in 1..Len(r)
      PROVE  Before(r, i, T) <=> Before(q, i + 1, T)
  <2>1. ASSUME NEW j \in 1..Len(r), j < i, r[j] \in T PROVE Before(q, i + 1, T)
    <3>1. j + 1 \in 1..Len(q) /\ j + 1 < i + 1 /\ q[j + 1] \in T
      BY <1>1, <1>3, <2>1
    <3> QED BY <3>1 DEF Before
  <2>2. ASSUME NEW j \in 1..Len(q), j < i + 1, q[j] \in T PROVE Before(r, i, T)
    <3>1. j # 1
      BY <1>1, <1>5, <2>2
    <3> DEFINE k == j - 1
    <3>2. k \in 1..Len(r) /\ k < i /\ k + 1 = j
      BY <1>1, <2>2, <3>1
    <3> HIDE DEF k
    <3>3. r[k] \in T
      BY <1>1, <2>2, <3>2
    <3> QED BY <3>2, <3>3 DEF Before
  <2> QED BY <2>1, <2>2 DEF Before
<1>6. ASSUME Head(q) \notin T PROVE Splits(r, T, old, new)
  BY <1>1, <1>3, <1>5, <1>6 DEF Splits
<1>7. ASSUME Head(q) \in T, Once(q, T), NEW other PROVE Splits(r, T, new, other)
  <2> SUFFICES ASSUME NEW i \in 1..Len(r), r[i].kind = "data"
               PROVE  ~Before(r, i, T) /\ Readable(r[i], new)
    BY DEF Splits
  <2>1. ~Before(r, i, T)
    BY <1>2, <1>7 DEF Before, Has
  <2>2. Before(q, i + 1, T)
    BY <1>1, <1>3, <1>7 DEF Before
  <2>3. Readable(q[i + 1], new)
    BY <1>1, <1>3, <2>2 DEF Splits
  <2> QED BY <1>1, <2>1, <2>3
<1> QED BY <1>4, <1>6, <1>7 DEF r

\* Where no message changes the cipher, the new one does not matter.
LEMMA SplitsPlainly ==
  ASSUME NEW q, NEW T, NEW old, NEW new, Splits(q, T, old, new), ~Has(q, T), NEW other
  PROVE  Splits(q, T, old, other)
<1>1. \A i \in 1..Len(q) : ~Before(q, i, T)
  BY DEF Before, Has
<1> QED BY <1>1 DEF Splits

\* An empty link has nothing.
LEMMA EmptyLink ==
  /\ <<>> \in Seq(AnyMessage)
  /\ \A T : ~Has(<<>>, T) /\ Once(<<>>, T)
  /\ \A T, old, new : Splits(<<>>, T, old, new)
<1>1. Len(<<>>) = 0 /\ 1..0 = {} /\ <<>> \in Seq(AnyMessage)
  BY EmptySeq
<1> QED BY <1>1 DEF Has, Once, Splits

\* A message is of one kind only, and Nothing is of none of these.
LEMMA KindFacts ==
  /\ Nothing \in AnyMessage /\ Nothing \notin Carriers /\ Nothing \notin Confirms
  /\ Carriers \cap Confirms = {} /\ Registers \cap Confirms = {}
  /\ \A m \in AnyMessage : m.kind = "data" => m \notin Carriers /\ m \notin Confirms
  /\ \A m \in AnyMessage : m.kind = "data" => m \notin Registers
<1>1. Nothing \in AnyMessage /\ Nothing.kind = "nothing"
  BY ConstantFacts DEF Nothing, Message, AnyMessage, Kinds
<1> QED BY <1>1 DEF Carriers, Confirms, Registers, CarriesHandshake, IsConfirm

----------------------------------------------------------------------------
(* The steps of a handshake, as steps of CleanState and CalmState.         *)

\* r has nothing on it of handshakes that q does not have.
Lesser(r, q) ==
    /\ Has(r, Carriers) => Has(q, Carriers)
    /\ Has(r, Confirms) => Has(q, Confirms)
    /\ Once(q, Carriers) => Once(r, Carriers)
    /\ Once(q, Confirms) => Once(r, Confirms)
    /\ Precede(q, Confirms, Carriers) => Precede(r, Confirms, Carriers)
    /\ \A G : Within(q, Carriers, G) => Within(r, Carriers, G)
    /\ \A G : Within(q, Confirms, G) => Within(r, Confirms, G)

\* Such are the link itself, the link when a message was read, and the link
\* when a message was pushed that has nothing to do with handshakes.
LEMMA LesserLinks ==
  ASSUME NEW q \in Seq(AnyMessage)
  PROVE  /\ Lesser(q, q)
         /\ q # <<>> => Lesser(Tail(q), q)
         /\ \A m \in AnyMessage : m \notin Carriers /\ m \notin Confirms => Lesser(Append(q, m), q)
<1>1. Lesser(q, q)
  BY DEF Lesser
<1>2. ASSUME q # <<>> PROVE Lesser(Tail(q), q)
  BY <1>2, TailHas DEF Lesser
<1>3. ASSUME NEW m \in AnyMessage, m \notin Carriers, m \notin Confirms
      PROVE  Lesser(Append(q, m), q)
  BY <1>3, AppendHas, AppendPrecede DEF Lesser
<1> QED BY <1>1, <1>2, <1>3

\* Without a handshake everything is clean, whatever the two contexts are.
LEMMA CleanBlank ==
  ASSUME NEW c, NEW s, NEW L, NEW M, NEW p, NEW as, NEW ac,
         ~Has(L, Carriers), ~Has(L, Confirms), ~Has(M, Carriers),
         p \notin Carriers, as \notin Carriers, ac = Nothing
  PROVE  CleanState(c, s, L, M, p, as, ac)
BY DEF CleanState, Has, Once, Precede, Within

\* Steps that at most take something away.
LEMMA CleanShrinks ==
  ASSUME NEW c, NEW s, NEW L, NEW M, NEW p, NEW as, NEW ac,
         CleanState(c, s, L, M, p, as, ac),
         NEW L2, NEW M2, NEW p2, NEW as2, NEW ac2, Lesser(L2, L), Lesser(M2, M),
         p2 = p \/ p2 \notin Carriers, as2 = as \/ as2 \notin Carriers,
         ac2 = ac \/ ac2 = Nothing
  PROVE  CleanState(c, s, L2, M2, p2, as2, ac2)
<1> DEFINE R == Requests(c)
           A == Replies(c, s)
           F == Confirmations(c, s)
<1> HIDE DEF R, A, F
<1>1. /\ Within(L, Carriers, R) /\ Within(M, Carriers, A) /\ Within(L, Confirms, F)
      /\ (p \in Carriers => p \in R) /\ (as \in Carriers => as \in A)
      /\ (ac # Nothing => ac \in F)
  BY DEF CleanState, R, A, F
<1>2. /\ Within(L2, Carriers, R) /\ Within(M2, Carriers, A) /\ Within(L2, Confirms, F)
      /\ (p2 \in Carriers => p2 \in R) /\ (as2 \in Carriers => as2 \in A)
      /\ (ac2 # Nothing => ac2 \in F)
  BY <1>1 DEF Lesser
<1>3. /\ p2 \in Carriers =>
         ~Has(L2, Carriers) /\ as2 \notin Carriers /\ ~Has(M2, Carriers) /\ ac2 = Nothing
      /\ Has(L2, Carriers) => as2 \notin Carriers /\ ~Has(M2, Carriers) /\ ac2 = Nothing
      /\ as2 \in Carriers => ~Has(M2, Carriers) /\ ac2 = Nothing
      /\ Has(M2, Carriers) => ac2 = Nothing
      /\ Has(L2, Confirms) => as2 \notin Carriers /\ ~Has(M2, Carriers) /\ ac2 = Nothing
      /\ Once(L2, Carriers) /\ Once(M2, Carriers) /\ Once(L2, Confirms)
      /\ Precede(L2, Confirms, Carriers)
  BY DEF CleanState, Lesser
<1> QED BY <1>2, <1>3 DEF CleanState, R, A, F

\* The client registers: the request is the first message of all.
LEMMA CleanRegister ==
  ASSUME NEW c, NEW s, NEW m \in AnyMessage, m \notin Confirms,
         m \in Carriers => m \in Requests(c)
  PROVE  CleanState(c, s, Append(<<>>, m), <<>>, Nothing, Nothing, Nothing)
<1> DEFINE L == Append(<<>>, m)
<1>0. <<>> \in Seq(AnyMessage) /\ ~Has(<<>>, Carriers) /\ ~Has(<<>>, Confirms)
      /\ Once(<<>>, Carriers) /\ Once(<<>>, Confirms)
  BY EmptyLink
<1>1. Precede(<<>>, Confirms, Carriers) /\ \A T, G : Within(<<>>, T, G)
  BY <1>0, EmptySeq DEF Precede, Within
<1>2. /\ (Has(L, Carriers) => m \in Carriers) /\ ~Has(L, Confirms)
      /\ Once(L, Carriers) /\ Once(L, Confirms)
      /\ Within(L, Carriers, Requests(c)) /\ Within(L, Confirms, Confirmations(c, s))
  BY <1>0, <1>1, AppendHas
<1>3. Precede(L, Confirms, Carriers)
  BY <1>0, <1>1, AppendPrecede
<1> HIDE DEF L
<1>4. CleanState(c, s, L, <<>>, Nothing, Nothing, Nothing)
  BY <1>0, <1>1, <1>2, <1>3, KindFacts DEF CleanState
<1> QED BY <1>4 DEF L

\* Poll starts a handshake while none is under way: the client has another key
\* pair. If there is a confirmation, it was clean before.
LEMMA CleanPing ==
  ASSUME NEW c, NEW d, NEW s, NEW L, NEW M, NEW p, NEW as, NEW ac, NEW p2,
         ~Has(L, Carriers), ~Has(M, Carriers), as \notin Carriers, ac = Nothing,
         Has(L, Confirms) => CleanState(c, s, L, M, p, as, ac),
         d.read = c.read, d.write = c.write, p2 \in Carriers => p2 \in Requests(d)
  PROVE  CleanState(d, s, L, M, p2, as, ac)
<1>1. /\ Once(L, Carriers) /\ Once(M, Carriers) /\ Precede(L, Confirms, Carriers)
      /\ Within(L, Carriers, Requests(d)) /\ Within(M, Carriers, Replies(d, s))
  BY DEF Has, Once, Precede, Within
<1>2. Confirmations(d, s) = Confirmations(c, s)
  BY DEF Confirmations
<1>3. Once(L, Confirms) /\ Within(L, Confirms, Confirmations(d, s))
  <2>1. CASE Has(L, Confirms)
    BY <1>2, <2>1 DEF CleanState
  <2>2. CASE ~Has(L, Confirms)
    BY <2>2 DEF Has, Once, Within
  <2> QED BY <2>1, <2>2
<1> QED BY <1>1, <1>3 DEF CleanState

\* The ping with the request is pushed.
LEMMA CleanPushPing ==
  ASSUME NEW c, NEW s, NEW L \in Seq(AnyMessage), NEW M, NEW p \in AnyMessage, NEW as, NEW ac,
         CleanState(c, s, L, M, p, as, ac), p \notin Confirms
  PROVE  CleanState(c, s, Append(L, p), M, Nothing, as, ac)
<1> DEFINE R == Requests(c)
           A == Replies(c, s)
           F == Confirmations(c, s)
           L2 == Append(L, p)
<1> HIDE DEF R, A, F
<1>1. /\ Within(L, Carriers, R) /\ Within(M, Carriers, A) /\ Within(L, Confirms, F)
      /\ (p \in Carriers => p \in R) /\ (as \in Carriers => as \in A)
      /\ (ac # Nothing => ac \in F)
      /\ (p \in Carriers =>
            ~Has(L, Carriers) /\ as \notin Carriers /\ ~Has(M, Carriers) /\ ac = Nothing)
      /\ Once(L, Carriers) /\ Once(L, Confirms) /\ Precede(L, Confirms, Carriers)
  BY DEF CleanState, R, A, F
<1>2. /\ Within(L2, Carriers, R) /\ Within(L2, Confirms, F)
      /\ (Has(L2, Carriers) <=> Has(L, Carriers) \/ p \in Carriers)
      /\ (Has(L2, Confirms) <=> Has(L, Confirms))
      /\ Once(L2, Carriers) /\ Once(L2, Confirms)
  BY <1>1, AppendHas
<1>3. Precede(L2, Confirms, Carriers)
  BY <1>1, AppendPrecede
<1> HIDE DEF L2
<1>4. CleanState(c, s, L2, M, Nothing, as, ac)
  BY <1>1, <1>2, <1>3, KindFacts DEF CleanState, R, A, F
<1> QED BY <1>4 DEF L2

\* The server handles the request: nothing but its reply is left.
LEMMA CleanReply ==
  ASSUME NEW c, NEW s, NEW L \in Seq(AnyMessage), L # <<>>, NEW M, NEW p, NEW as, NEW ac,
         CleanState(c, s, L, M, p, as, ac), Head(L) \in Carriers,
         NEW t, NEW as2, as2 \in Carriers => as2 \in Replies(c, t)
  PROVE  /\ CleanState(c, t, Tail(L), M, p, as2, ac)
         /\ Head(L) \in Requests(c)
         /\ ~Has(M, Carriers) /\ ~Has(L, Confirms)
<1> DEFINE r == Tail(L)
           R == Requests(c)
<1> HIDE DEF R
<1>1. /\ Once(L, Carriers) /\ Precede(L, Confirms, Carriers) /\ Within(L, Carriers, R)
  BY DEF CleanState, R
<1>2. Has(L, Carriers) /\ ~Has(r, Carriers) /\ Head(L) \in R
  BY <1>1, TailHas
<1>3. ~Has(L, Confirms)
  BY <1>1, TailHas
<1>4. ~Has(r, Confirms)
  BY <1>3, TailHas
<1>5. p \notin Carriers /\ ~Has(M, Carriers) /\ ac = Nothing
  BY <1>2 DEF CleanState
<1> HIDE DEF r
<1>6. CleanState(c, t, r, M, p, as2, ac)
  BY <1>2, <1>4, <1>5 DEF CleanState, Has, Once, Precede, Within
<1> QED BY <1>2, <1>3, <1>5, <1>6 DEF r, R

\* The reply is pushed.
LEMMA CleanPushReply ==
  ASSUME NEW c, NEW s, NEW L, NEW M \in Seq(AnyMessage), NEW p, NEW as \in AnyMessage, NEW ac,
         CleanState(c, s, L, M, p, as, ac)
  PROVE  CleanState(c, s, L, Append(M, as), p, Nothing, ac)
<1> DEFINE R == Requests(c)
           A == Replies(c, s)
           F == Confirmations(c, s)
           M2 == Append(M, as)
<1> HIDE DEF R, A, F
<1>1. /\ Within(M, Carriers, A) /\ (as \in Carriers => as \in A)
      /\ (as \in Carriers => ~Has(M, Carriers)) /\ Once(M, Carriers)
  BY DEF CleanState, A
<1>2. /\ Within(M2, Carriers, A) /\ Once(M2, Carriers)
      /\ (Has(M2, Carriers) <=> Has(M, Carriers) \/ as \in Carriers)
  BY <1>1, AppendHas
<1> HIDE DEF M2
<1>3. CleanState(c, s, L, M2, p, Nothing, ac)
  BY <1>2, KindFacts DEF CleanState, A
<1> QED BY <1>3 DEF M2

\* The client handles the reply: nothing but its confirmation is left.
LEMMA CleanConfirm ==
  ASSUME NEW c, NEW s, NEW L, NEW M \in Seq(AnyMessage), M # <<>>, NEW p, NEW as, NEW ac,
         CleanState(c, s, L, M, p, as, ac), Head(M) \in Carriers,
         NEW d, NEW ac2, ac2 # Nothing => ac2 \in Confirmations(d, s)
  PROVE  /\ CleanState(d, s, L, Tail(M), p, as, ac2)
         /\ Head(M) \in Replies(c, s)
         /\ as \notin Carriers /\ ~Has(L, Confirms) /\ ~Has(Tail(M), Carriers)
<1> DEFINE r == Tail(M)
           A == Replies(c, s)
<1> HIDE DEF A
<1>1. Once(M, Carriers) /\ Within(M, Carriers, A)
  BY DEF CleanState, A
<1>2. Has(M, Carriers) /\ ~Has(r, Carriers) /\ Head(M) \in A
  BY <1>1, TailHas
<1>3. p \notin Carriers /\ ~Has(L, Carriers) /\ as \notin Carriers /\ ~Has(L, Confirms)
  BY <1>2 DEF CleanState
<1> HIDE DEF r
<1>4. CleanState(d, s, L, r, p, as, ac2)
  BY <1>2, <1>3 DEF CleanState, Has, Once, Precede, Within
<1> QED BY <1>2, <1>3, <1>4 DEF r, A

\* The confirmation is pushed.
LEMMA CleanPushConfirm ==
  ASSUME NEW c, NEW s, NEW L \in Seq(AnyMessage), NEW M, NEW p, NEW as, NEW ac \in AnyMessage,
         CleanState(c, s, L, M, p, as, ac), ac \in Confirms
  PROVE  /\ CleanState(c, s, Append(L, ac), M, p, as, Nothing)
         /\ ~Has(L, Confirms)
<1> DEFINE R == Requests(c)
           A == Replies(c, s)
           F == Confirmations(c, s)
           L2 == Append(L, ac)
<1> HIDE DEF R, A, F
<1>0. ac # Nothing /\ ac \notin Carriers
  BY KindFacts
<1>1. /\ p \notin Carriers /\ ~Has(L, Carriers) /\ as \notin Carriers /\ ~Has(M, Carriers)
      /\ ~Has(L, Confirms) /\ ac \in F /\ Once(M, Carriers) /\ Once(L, Carriers)
      /\ Once(L, Confirms) /\ Within(L, Carriers, R) /\ Within(M, Carriers, A)
      /\ Within(L, Confirms, F) /\ Precede(L, Confirms, Carriers)
  BY <1>0 DEF CleanState, R, A, F
<1>2. /\ Within(L2, Carriers, R) /\ Within(L2, Confirms, F)
      /\ ~Has(L2, Carriers) /\ Once(L2, Carriers) /\ Once(L2, Confirms)
  BY <1>0, <1>1, AppendHas
<1>3. Precede(L2, Confirms, Carriers)
  BY <1>0, <1>1, AppendPrecede
<1> HIDE DEF L2
<1>4. CleanState(c, s, L2, M, p, as, Nothing)
  BY <1>1, <1>2, <1>3 DEF CleanState, R, A, F
<1> QED BY <1>1, <1>4 DEF L2

\* The server handles the confirmation: it is the one of its last reply, and
\* the two directions use one cipher.
LEMMA CleanConfirmed ==
  ASSUME NEW c, NEW s, NEW L \in Seq(AnyMessage), L # <<>>, NEW M, NEW p, NEW as, NEW ac,
         CleanState(c, s, L, M, p, as, ac), Head(L) \in Confirms, NEW t
  PROVE  /\ CleanState(c, t, Tail(L), M, p, as, ac)
         /\ Head(L) \in Confirmations(c, s)
         /\ as \notin Carriers /\ ~Has(M, Carriers) /\ ac = Nothing
         /\ ~Has(Tail(L), Confirms)
<1> DEFINE r == Tail(L)
           R == Requests(c)
           F == Confirmations(c, s)
<1> HIDE DEF R, F
<1>1. /\ Once(L, Confirms) /\ Within(L, Confirms, F) /\ Within(L, Carriers, R)
      /\ Once(L, Carriers)
  BY DEF CleanState, R, F
<1>2. Has(L, Confirms) /\ ~Has(r, Confirms) /\ Head(L) \in F
  BY <1>1, TailHas
<1>3. Once(r, Carriers) /\ Within(r, Carriers, R) /\ (Has(r, Carriers) => Has(L, Carriers))
  BY <1>1, TailHas
<1>4. as \notin Carriers /\ ~Has(M, Carriers) /\ ac = Nothing
  BY <1>2 DEF CleanState
<1> HIDE DEF r
<1>5. Once(r, Confirms) /\ Precede(r, Confirms, Carriers)
      /\ Within(r, Confirms, Confirmations(c, t))
      /\ Within(M, Carriers, Replies(c, t)) /\ Once(M, Carriers)
  BY <1>2, <1>4 DEF Has, Once, Precede, Within
<1>6. CleanState(c, t, r, M, p, as, ac)
  BY <1>2, <1>3, <1>4, <1>5 DEF CleanState, R
<1> QED BY <1>2, <1>4, <1>6 DEF r, F

\* Messages read that change no cipher, and other contexts with the same
\* ciphers.
LEMMA CalmReads ==
  ASSUME NEW c, NEW s, NEW L \in Seq(AnyMessage), NEW M \in Seq(AnyMessage), NEW as, NEW ac,
         CalmState(c, s, L, M, as, ac), NEW d, NEW t, NEW L2, NEW M2,
         NEW as2, as2 = as \/ (as \notin Carriers /\ as2 \notin Carriers),
         d.read = c.read, d.write = c.write,
         t.read = s.read, t.write = s.write, t.staged = s.staged,
         \/ L2 = L
         \/ L # <<>> /\ Head(L) \notin Confirms /\ L2 = Tail(L),
         \/ M2 = M
         \/ M # <<>> /\ Head(M) \notin Carriers /\ M2 = Tail(M)
  PROVE  CalmState(d, t, L2, M2, as2, ac)
<1> DEFINE old == s.read
           new == s.staged
           before == c.read
           after == s.write
<1>0. Splits(L, Confirms, old, new) /\ Splits(M, Carriers, before, after)
  BY DEF CalmState
<1> HIDE DEF old, new, before, after
<1>1. Splits(L2, Confirms, old, new) /\ (Has(L, Confirms) <=> Has(L2, Confirms))
  <2>1. CASE L2 = L
    BY <1>0, <2>1
  <2>2. CASE L # <<>> /\ Head(L) \notin Confirms /\ L2 = Tail(L)
    BY <1>0, <2>2, TailSplits, TailHas
  <2> QED BY <2>1, <2>2
<1>2. Splits(M2, Carriers, before, after) /\ (Has(M, Carriers) <=> Has(M2, Carriers))
  <2>1. CASE M2 = M
    BY <1>0, <2>1
  <2>2. CASE M # <<>> /\ Head(M) \notin Carriers /\ M2 = Tail(M)
    BY <1>0, <2>2, TailSplits, TailHas
  <2> QED BY <2>1, <2>2
<1> QED BY <1>1, <1>2 DEF CalmState, old, new, before, after

\* The client pushes a ping, or data it has packed with its write cipher.
LEMMA CalmPushToServer ==
  ASSUME NEW c, NEW s, NEW L \in Seq(AnyMessage), NEW M, NEW p, NEW as, NEW ac,
         CalmState(c, s, L, M, as, ac), CleanState(c, s, L, M, p, as, ac),
         NEW m \in AnyMessage, m \notin Confirms,
         m.kind = "data" => m.cipher = c.write /\ ac = Nothing
  PROVE  CalmState(c, s, Append(L, m), M, as, ac)
<1>1. Has(L, Confirms) => s.staged = c.write
  BY DEF CleanState, Has, Within, Confirmations
<1>2. m.kind = "data" => /\ Has(L, Confirms) => Readable(m, s.staged)
                         /\ ~Has(L, Confirms) => Readable(m, s.read)
  BY <1>1 DEF CalmState, Readable
<1>3. Splits(Append(L, m), Confirms, s.read, s.staged)
  BY <1>2, AppendSplits DEF CalmState
<1>4. Has(Append(L, m), Confirms) <=> Has(L, Confirms)
  BY AppendHas
<1> QED BY <1>3, <1>4 DEF CalmState

\* The server pushes its answer.
LEMMA CalmPushReply ==
  ASSUME NEW c, NEW s, NEW L, NEW M \in Seq(AnyMessage), NEW as \in AnyMessage, NEW ac,
         CalmState(c, s, L, M, as, ac), as.kind # "data"
  PROVE  CalmState(c, s, L, Append(M, as), Nothing, ac)
<1>1. Splits(Append(M, as), Carriers, c.read, s.write)
  BY AppendSplits DEF CalmState
<1>2. Has(Append(M, as), Carriers) <=> Has(M, Carriers) \/ as \in Carriers
  BY AppendHas
<1> QED BY <1>1, <1>2 DEF CalmState

\* The server pushes data it has packed with its write cipher.
LEMMA CalmPushToClient ==
  ASSUME NEW c, NEW s, NEW L, NEW M \in Seq(AnyMessage), NEW as, NEW ac,
         CalmState(c, s, L, M, as, ac), as \notin Carriers,
         NEW m \in AnyMessage, m \notin Carriers, m.kind = "data" => m.cipher = s.write
  PROVE  CalmState(c, s, L, Append(M, m), as, ac)
<1>1. m.kind = "data" => /\ Has(M, Carriers) => Readable(m, s.write)
                         /\ ~Has(M, Carriers) => Readable(m, c.read)
  BY DEF CalmState, Readable
<1>2. Splits(Append(M, m), Carriers, c.read, s.write)
  BY <1>1, AppendSplits DEF CalmState
<1>3. Has(Append(M, m), Carriers) <=> Has(M, Carriers)
  BY AppendHas
<1> QED BY <1>2, <1>3 DEF CalmState

\* The client pushes its confirmation.
LEMMA CalmPushConfirm ==
  ASSUME NEW c, NEW s, NEW L \in Seq(AnyMessage), NEW M, NEW as, NEW ac \in Confirms,
         CalmState(c, s, L, M, as, ac)
  PROVE  CalmState(c, s, Append(L, ac), M, as, Nothing)
<1>0. ac \in AnyMessage /\ ac.kind # "data"
  BY DEF Confirms, IsConfirm
<1>1. Splits(Append(L, ac), Confirms, s.read, s.staged)
  BY <1>0, AppendSplits DEF CalmState
<1>2. Has(Append(L, ac), Confirms)
  BY <1>0, AppendHas
<1> QED BY <1>1, <1>2 DEF CalmState

\* The server handles a request: it writes with the new cipher, which its reply
\* announces, and goes on reading with the old one.
LEMMA CalmReply ==
  ASSUME NEW c, NEW s, NEW L \in Seq(AnyMessage), L # <<>>, NEW M, NEW as, NEW ac,
         CalmState(c, s, L, M, as, ac), ~Has(L, Confirms), ~Has(M, Carriers),
         NEW t, t.read = s.read, NEW as2 \in Carriers
  PROVE  CalmState(c, t, Tail(L), M, as2, ac)
<1>1. Head(L) \notin Confirms /\ ~Has(Tail(L), Confirms)
  BY TailHas
<1>2. Tail(L) \in Seq(AnyMessage)
  BY LinkTail
<1>3. Splits(Tail(L), Confirms, s.read, s.staged)
  BY <1>1, TailSplits DEF CalmState
<1>4. Splits(Tail(L), Confirms, s.read, t.staged)
  BY <1>1, <1>3, SplitsPlainly
<1>5. Splits(M, Carriers, c.read, t.write)
  BY SplitsPlainly DEF CalmState
<1> QED BY <1>4, <1>5 DEF CalmState

\* The client handles the reply: it reads and writes with what the server writes
\* with already, and so can read all that comes after the reply.
LEMMA CalmConfirm ==
  ASSUME NEW c, NEW s, NEW L, NEW M \in Seq(AnyMessage), M # <<>>, NEW as, NEW ac,
         CalmState(c, s, L, M, as, ac), Head(M) \in Carriers, Once(M, Carriers),
         NEW d, d.read = s.write, NEW ac2, ac2 # Nothing
  PROVE  CalmState(d, s, L, Tail(M), as, ac2)
<1>1. Splits(Tail(M), Carriers, s.write, s.write)
  BY TailSplits DEF CalmState
<1> QED BY <1>1 DEF CalmState

\* The server handles the confirmation: it reads with what it has staged, and so
\* can read all that comes after the confirmation.
LEMMA CalmConfirmed ==
  ASSUME NEW c, NEW s, NEW L \in Seq(AnyMessage), L # <<>>, NEW M, NEW as, NEW ac,
         CalmState(c, s, L, M, as, ac), Head(L) \in Confirms, Once(L, Confirms),
         s.staged = c.write, NEW t, t.read = s.staged, t.write = s.write
  PROVE  CalmState(c, t, Tail(L), M, as, ac)
<1>1. Splits(Tail(L), Confirms, s.staged, t.staged)
  BY TailSplits DEF CalmState
<1> QED BY <1>1 DEF CalmState

\* The server accepts the registration: there is nothing to read.
LEMMA CalmBegins ==
  ASSUME NEW c, NEW s, NEW M \in Seq(Denials), NEW as,
         as \notin Carriers => s.write = c.read, s.read = c.write
  PROVE  CalmState(c, s, <<>>, M, as, Nothing) /\ ~Has(M, Carriers)
<1>1. Splits(<<>>, Confirms, s.read, s.staged)
  BY EmptyLink
<1>2. \A i \in 1..Len(M) : M[i] \in Denials
  OBVIOUS
<1>3. \A i \in 1..Len(M) : M[i].kind # "data" /\ M[i] \notin Carriers
  BY <1>2 DEF Denials
<1>4. Splits(M, Carriers, c.read, s.write) /\ ~Has(M, Carriers)
  BY <1>3 DEF Splits, Has
<1> QED BY <1>1, <1>4 DEF CalmState

----------------------------------------------------------------------------
(* The ciphers of a context.                                               *)

\* HandshakeGenerateSelfKey changes no cipher.
LEMMA GenerateCiphers ==
  ASSUME NEW c \in AnyContext, NEW peerSeq \in Nat, NEW pair \in Nat,
         NEW made, made = HandshakeGenerateSelfKey(c, peerSeq, pair)
  PROVE  /\ made.read = c.read /\ made.write = c.write /\ made.staged = c.staged
         /\ c.kx # NoKx => made.kxUsed = c.kx
<1> DEFINE n == IF peerSeq = 0 THEN c.seq + 1 ELSE c.seq
           h == IF peerSeq = 0 THEN c.seq + 1 ELSE peerSeq
           sequenced == [c EXCEPT !.seq = n, !.hsSeq = h]
<1>1. sequenced.read = c.read /\ sequenced.write = c.write /\ sequenced.staged = c.staged
      /\ sequenced \in AnyContext
  <2>1. n \in Nat /\ h \in Nat
    BY DEF AnyContext
  <2> QED BY <2>1 DEF AnyContext
<1>2. made = IF c.kx # NoKx THEN [sequenced EXCEPT !.self = pair, !.kxUsed = c.kx]
             ELSE sequenced
  BY DEF HandshakeGenerateSelfKey, CanGenerate
<1> HIDE DEF sequenced
<1> QED BY <1>1, <1>2 DEF AnyContext

\* The context t of a server s that has accepted the handshake data hs.
Accepted(s, hs, t) ==
    /\ hs.kx = s.kx /\ s.kx # NoKx /\ t.kxUsed = s.kx
    /\ t.pending = TRUE /\ t.staged = t.write
    /\ t.hsSeq = hs.seq /\ t.self = MaxKeys + hs.pub
    /\ \/ t.write = Plain
       \/ \E a \in AnyAlg :
            a # NoneAlg /\ t.write = [alg |-> a, key |-> {t.self, hs.pub}]

\* What a request makes of the server: when it accepts it, a new cipher is used
\* for writing and staged for reading; otherwise no cipher changes.
LEMMA ServerCiphers ==
  ASSUME NEW s \in AnyContext, NEW hs \in AnyHandshake, hs.seq # 0,
         allow["server"] \in SUBSET Algs, NEW t, t = ServerNegotiate(s, hs)
  PROVE  /\ t \in AnyContext /\ t.kx = s.kx /\ t.read = s.read /\ (s.pending => t.pending)
         /\ ~ServerAccepts(s, hs) => t.write = s.write /\ t.staged = s.staged
         /\ ServerAccepts(s, hs) => Accepted(s, hs, t)
<1> DEFINE q == hs.seq
           p == MaxKeys + hs.pub
           allowed == allow["server"]
           made == HandshakeGenerateSelfKey(s, q, p)
<1>1. q \in Nat /\ q # 0 /\ p \in Nat /\ allowed \in SUBSET Algs
  BY ConstantFacts DEF AnyHandshake
<1> HIDE DEF q, p, allowed
<1>2. made = HandshakeGenerateSelfKey(s, q, p)
  OBVIOUS
<1> HIDE DEF made
<1>3. /\ made \in AnyContext /\ made.kx = s.kx /\ made.hsSeq = q /\ made.pending = s.pending
      /\ made.self = IF s.kx # NoKx THEN p ELSE s.self
  BY <1>1, <1>2, GenerateFacts, ZenonT(60)
<1>4. /\ made.read = s.read /\ made.write = s.write /\ made.staged = s.staged
      /\ s.kx # NoKx => made.kxUsed = s.kx
  BY <1>1, <1>2, GenerateCiphers, SMTT(60)
<1>5. t = IF s.kx # NoKx THEN HandshakeReadPeerKey(made, hs, allowed, TRUE) ELSE made
  BY DEF ServerNegotiate, CanGenerate, made, q, p, allowed
<1>6. ServerAccepts(s, hs) <=> s.kx # NoKx /\ CanRead(made, hs)
  BY <1>3 DEF ServerAccepts, CanGenerate, CanRead
<1>7. CASE ~ServerAccepts(s, hs)
  <2>1. t = made
    BY <1>5, <1>6, <1>7 DEF HandshakeReadPeerKey
  <2> QED BY <1>3, <1>4, <1>7, <2>1
<1>8. CASE ServerAccepts(s, hs)
  <2> DEFINE w == DerivedCipher(made, hs, allowed)
  <2>1. w \in AnyCipher
    BY <1>1, <1>3, DerivedFacts
  <2>2. t = [made EXCEPT !.write = w, !.staged = w, !.pending = TRUE]
    BY <1>5, <1>6, <1>8 DEF HandshakeReadPeerKey
  <2>3. w = Plain \/ \E a \in AnyAlg :
                       a # NoneAlg /\ w = [alg |-> a, key |-> {made.self, hs.pub}]
    <3>1. NegotiateCryptoAlgorithm(allowed, hs.algs) \in AnyAlg
      BY <1>1, NegotiateFacts
    <3> QED BY <3>1 DEF DerivedCipher
  <2> HIDE DEF w
  <2>4. /\ t \in AnyContext /\ t.kx = made.kx /\ t.read = made.read /\ t.write = w
        /\ t.staged = w /\ t.pending = TRUE /\ t.hsSeq = made.hsSeq /\ t.self = made.self
        /\ t.kxUsed = made.kxUsed
    BY <1>3, <2>1, <2>2 DEF AnyContext
  <2>5. s.kx # NoKx /\ hs.kx = s.kx
    BY <1>3, <1>6, <1>8 DEF CanRead
  <2> QED BY <1>3, <1>4, <1>8, <2>3, <2>4, <2>5 DEF Accepted, q, p
<1> QED BY <1>7, <1>8

\* The answer to a request that the server has accepted is its reply.
LEMMA AnswerIsReply ==
  ASSUME NEW c \in AnyContext, NEW s \in AnyContext, NEW m \in Carriers, m \in Requests(c),
         allow["server"] \in SUBSET Algs, NEW t, t = ServerNegotiate(s, m.hs),
         ServerAccepts(s, m.hs), NEW kind \in {"register_rsp", "pong"},
         kind = "pong" => m.kind = "ping"
  PROVE  LET a == Message(kind, HandshakeWriteSelfPublicKey(t, Selected(t)), TRUE, Plain)
         IN  a \in Carriers /\ a \in Replies(c, t)
<1> DEFINE hs == m.hs
           h == HandshakeWriteSelfPublicKey(t, Selected(t))
           a == Message(kind, h, TRUE, Plain)
<1>1. /\ hs \in AnyHandshake /\ hs.seq # 0 /\ hs.kx # NoKx /\ hs.kx = c.kx
      /\ hs.pub = c.self /\ c.self # 0 /\ (kind = "pong" => c.write.alg # NoneAlg)
  BY DEF Carriers, Requests, AnyMessage, CarriesHandshake
<1>2. t = ServerNegotiate(s, hs) /\ ServerAccepts(s, hs)
  OBVIOUS
<1> HIDE DEF hs
<1>3. /\ t \in AnyContext /\ t.kx = s.kx /\ hs.kx = s.kx
      /\ t.pending = TRUE /\ t.staged = t.write
      /\ t.hsSeq = hs.seq /\ t.self = MaxKeys + hs.pub
      /\ \/ t.write = Plain
         \/ \E x \in AnyAlg :
              x # NoneAlg /\ t.write = [alg |-> x, key |-> {t.self, hs.pub}]
  <2>1. hs \in AnyHandshake /\ hs.seq # 0 /\ allow["server"] \in SUBSET Algs /\ s \in AnyContext
    BY <1>1
  <2>2. t \in AnyContext /\ t.kx = s.kx /\ Accepted(s, hs, t)
    BY ONLY <2>1, <1>2, ServerCiphers
  <2> QED BY <2>2 DEF Accepted
<1>4. t.self # 0
  <2>1. MaxKeys \in Nat /\ hs.pub \in Nat /\ hs.pub # 0
    BY <1>1, ConstantFacts DEF AnyHandshake
  <2> QED BY <1>3, <2>1
<1>5. Selected(t) \in SUBSET AnyAlg
  BY <1>3, SelectedFacts
<1>6. h = [seq |-> t.hsSeq, kx |-> t.kx, algs |-> Selected(t), pub |-> t.self]
      /\ h \in AnyHandshake
  BY <1>3, <1>4, <1>5, WriteFacts DEF HandshakeWriteSelfPublicKey
<1>7. \/ Selected(t) = {} /\ t.write = Plain
      \/ \E x \in AnyAlg : /\ x # NoneAlg /\ Selected(t) = {x}
                           /\ t.write = [alg |-> x, key |-> {c.self, t.self}]
  <2>1. CASE t.write = Plain
    BY <2>1 DEF Selected, GetCryptoSelectAlgorithm, Plain
  <2>2. CASE t.write # Plain
    <3>1. PICK x \in AnyAlg : x # NoneAlg /\ t.write = [alg |-> x, key |-> {t.self, hs.pub}]
      BY <1>3, <2>2
    <3>2. t.write.alg = x /\ t.write = [alg |-> x, key |-> {c.self, t.self}]
      BY <1>1, <3>1
    <3>3. Selected(t) = {x}
      BY <3>1, <3>2 DEF Selected, GetCryptoSelectAlgorithm
    <3> QED BY <3>1, <3>2, <3>3
  <2> QED BY <2>1, <2>2
<1> HIDE DEF h
<1>8. a \in AnyMessage /\ a.kind = kind /\ a.hs = h /\ a.ok = TRUE
  BY <1>6, ConstantFacts DEF Message, AnyMessage, Kinds
<1>9. h.seq = t.hsSeq /\ h.kx = t.kx /\ h.algs = Selected(t) /\ h.pub = t.self
  BY <1>6
<1> HIDE DEF a
<1>10. a \in Carriers
  BY <1>1, <1>3, <1>8, <1>9 DEF Carriers, CarriesHandshake
<1>11. a \in Replies(c, t)
  <2>1. a \in AnyMessage /\ a.ok = TRUE /\ a.hs = h
    BY ONLY <1>8
  <2>2. a.hs.kx = c.kx /\ a.hs.pub = t.self /\ a.hs.seq = t.hsSeq /\ a.hs.algs = Selected(t)
    BY ONLY <1>1, <1>3, <1>9, <2>1
  <2>3. t.pending = TRUE /\ t.staged = t.write
    BY ONLY <1>3
  <2>4. a.kind = "pong" => c.write.alg # NoneAlg
    BY ONLY <1>1, <1>8
  <2>5. \/ a.hs.algs = {} /\ t.write = Plain
        \/ \E x \in AnyAlg : /\ x # NoneAlg /\ a.hs.algs = {x}
                             /\ t.write = [alg |-> x, key |-> {c.self, t.self}]
    BY ONLY <1>7, <2>2
  <2> QED BY ONLY <2>1, <2>2, <2>3, <2>4, <2>5 DEF Replies
<1> QED BY <1>10, <1>11 DEF a, h

\* The context d and the confirmation a of a client c that has read the
\* handshake data hs of a reply, whose algorithm it allows.
Taken(c, hs, allowed, d, a) ==
    /\ d = GetNextSequence(HandshakeReadPeerKey(c, hs, allowed, FALSE))
    /\ a = Message("confirm", hs, TRUE, Plain)
    /\ CanRead(c, hs) /\ hs.algs # {} => NegotiateCryptoAlgorithm(allowed, hs.algs) # NoneAlg

\* What a reply makes of the client, unless it has stopped allowing the
\* algorithm the server selected: both its ciphers are the one the server
\* writes with, and the confirmation is one.
LEMMA ReplyIsTaken ==
  ASSUME NEW c \in AnyContext, NEW s \in AnyContext, NEW m \in Carriers, m \in Replies(c, s),
         NEW allowed \in SUBSET Algs, NEW d, NEW a, Taken(c, m.hs, allowed, d, a)
  PROVE  /\ CanRead(c, m.hs) /\ d.read = s.write /\ d.write = s.write
         /\ a \in Confirmations(d, s) /\ a # Nothing
<1> DEFINE hs == m.hs
           w == DerivedCipher(c, hs, allowed)
           after == HandshakeReadPeerKey(c, hs, allowed, FALSE)
<1>1. /\ hs \in AnyHandshake /\ hs.kx = c.kx /\ hs.pub = s.self /\ hs.seq = s.hsSeq
      /\ s.pending = TRUE /\ s.staged = s.write
      /\ \/ hs.algs = {} /\ s.write = Plain
         \/ \E x \in AnyAlg : /\ x # NoneAlg /\ hs.algs = {x}
                              /\ s.write = [alg |-> x, key |-> {c.self, s.self}]
  BY DEF Replies, AnyMessage
<1>2. CanRead(c, hs)
  BY <1>1 DEF CanRead
<1>3. w = s.write
  <2>1. CASE hs.algs = {} /\ s.write = Plain
    BY <2>1 DEF DerivedCipher, NegotiateCryptoAlgorithm
  <2>2. ASSUME NEW x \in AnyAlg, x # NoneAlg, hs.algs = {x},
               s.write = [alg |-> x, key |-> {c.self, s.self}]
        PROVE  w = s.write
    <3>1. NegotiateCryptoAlgorithm(allowed, hs.algs) # NoneAlg
      BY <1>2, <2>2 DEF Taken
    <3>2. allowed \cap hs.algs = {x} /\ x \in Algs
      BY <2>2, <3>1 DEF NegotiateCryptoAlgorithm
    <3>3. x <= x
      BY <3>2, CipherAssumption DEF Algs
    <3>4. NegotiateCryptoAlgorithm(allowed, hs.algs) = x
      BY <3>2, <3>3 DEF NegotiateCryptoAlgorithm
    <3> QED BY <1>1, <2>2, <3>4 DEF DerivedCipher
  <2> QED BY <1>1, <2>1, <2>2
<1>4. w \in AnyCipher
  BY <1>3 DEF AnyContext
<1>5. after = [c EXCEPT !.write = w, !.read = w]
  BY <1>2 DEF HandshakeReadPeerKey
<1> HIDE DEF w
<1>6. after \in AnyContext /\ after.read = w /\ after.write = w
  BY <1>4, <1>5 DEF AnyContext
<1>7. d = [after EXCEPT !.seq = @ + 1]
  BY DEF Taken, GetNextSequence
<1> HIDE DEF after
<1>8. d.read = w /\ d.write = w
  BY <1>6, <1>7 DEF AnyContext
<1>9. a \in AnyMessage /\ a.hs = hs /\ a.kind = "confirm"
  BY <1>1, ConstantFacts DEF Taken, Message, AnyMessage, Kinds
<1>10. a # Nothing
  BY <1>9 DEF Nothing, Message
<1> HIDE DEF hs
<1>11. a \in Confirmations(d, s)
  BY <1>1, <1>3, <1>8, <1>9 DEF Confirmations
<1> QED BY <1>2, <1>3, <1>8, <1>10, <1>11 DEF hs

\* ConfirmHandshake of the sequence that is pending reads with what was staged.
LEMMA ConfirmCiphers ==
  ASSUME NEW s \in AnyContext, NEW seq, NEW t, t = ConfirmHandshake(s, seq)
  PROVE  /\ t.write = s.write
         /\ s.hsSeq = seq /\ s.pending = TRUE => t.read = s.staged
BY ConstantFacts DEF ConfirmHandshake, AnyContext

----------------------------------------------------------------------------
(* Every step of the two ends.                                             *)

\* What SessionInv says of the types.
TypesOK ==
    /\ ctx \in [Ends -> AnyContext] /\ allow \in [Ends -> SUBSET Algs]
    /\ used \in [keys : Nat, data : Nat, refused : Nat, reloads : Nat]
    /\ Client.kx = NoKx => Client.self = 0
    /\ link \in [Ends -> Seq(AnyMessage)] /\ answer \in [Ends -> AnyMessage]
    /\ ping \in AnyMessage /\ packed \in [Ends -> AnyMessage]
    /\ answer["client"].kind = "confirm" => answer["client"].hs.seq # 0

\* SessionInv has them.
LEMMA SessionTypes ==
  ASSUME SessionInv
  PROVE  TypesOK
<1>1. PICK num : Numbered(num)
  BY DEF SessionInv
<1> DEFINE G == Agreed(num)
<1>2. G \subseteq AnyMessage /\ \A m \in G : m.kind = "confirm" => m.hs.seq # 0
  BY DEF Agreed, Agreeing
<1>3. /\ link \in [Ends -> Seq(G)] /\ answer \in [Ends -> G] /\ ping \in G
      /\ packed \in [Ends -> G]
  BY <1>1 DEF Numbered, MessagesOK
<1> HIDE DEF G
<1>4. [Ends -> Seq(G)] \subseteq [Ends -> Seq(AnyMessage)] /\ [Ends -> G] \subseteq [Ends -> AnyMessage]
  BY <1>2, MessagesGrow
<1>5. answer["client"] \in G
  BY <1>3, EndsFacts
<1>6. /\ ctx \in [Ends -> AnyContext] /\ allow \in [Ends -> SUBSET Algs]
      /\ used \in [keys : Nat, data : Nat, refused : Nat, reloads : Nat]
      /\ Client.kx = NoKx => Client.self = 0
  BY <1>1 DEF Numbered, ContextsOK, Client
<1>7. /\ link \in [Ends -> Seq(AnyMessage)] /\ answer \in [Ends -> AnyMessage]
      /\ packed \in [Ends -> AnyMessage]
  BY <1>3, <1>4
<1>8. ping \in AnyMessage /\ (answer["client"].kind = "confirm" => answer["client"].hs.seq # 0)
  BY <1>2, <1>3, <1>5
<1> QED BY <1>6, <1>7, <1>8 DEF TypesOK

\* The parts of the state have their types.
LEMMA PartTypes ==
  ASSUME TypesOK
  PROVE  /\ Client \in AnyContext /\ Server \in AnyContext
         /\ ToServer \in Seq(AnyMessage) /\ ToClient \in Seq(AnyMessage)
         /\ \A e \in Ends : answer[e] \in AnyMessage /\ packed[e] \in AnyMessage
         /\ allow["client"] \in SUBSET Algs /\ allow["server"] \in SUBSET Algs
BY EndsFacts DEF TypesOK, Client, Server, ToServer, ToClient

\* Once the server has accepted the registration, there is none under way.
LEMMA Begun ==
  ASSUME Flow, phase["server"] # "new"
  PROVE  phase["client"] # "new" /\ ~Has(ToServer, Registers)
BY DEF Flow, Opening

\* It has, when anybody but the readLoops is about to push something.
LEMMA PushersBegun ==
  ASSUME Flow
  PROVE  /\ ping # Nothing => phase["server"] # "new"
         /\ \A e \in Ends : answer[e] # Nothing => phase["server"] # "new"
         /\ \A e \in Ends : packed[e] # Nothing => phase["server"] # "new"
         /\ \A e \in Ends : phase[e] = "registered" => phase["server"] # "new"
BY DEF Flow, Early, Ends

\* And when anything but the request or a denial is read.
LEMMA ReadersBegun ==
  ASSUME Flow, TypesOK
  PROVE  /\ \A kind : Receives("server", kind) /\ kind # "register" => phase["server"] # "new"
         /\ \A kind : Receives("client", kind) /\ kind # "register_rsp" => phase["server"] # "new"
<1>1. ASSUME phase["server"] = "new", NEW kind, Receives("server", kind) PROVE kind = "register"
  <2>1. ToServer \in Seq(Registers) /\ ToServer # <<>> /\ Head(ToServer).kind = kind
    BY <1>1 DEF Flow, Early, Receives, ToServer
  <2>2. Head(ToServer) \in Registers
    BY <2>1, HeadTailProperties
  <2> QED BY <2>1, <2>2 DEF Registers
<1>2. ASSUME phase["server"] = "new", NEW kind, Receives("client", kind) PROVE kind = "register_rsp"
  <2>1. ToClient \in Seq(Denials) /\ ToClient # <<>> /\ Head(ToClient).kind = kind
    BY <1>2 DEF Flow, Early, Receives, ToClient
  <2>2. Head(ToClient) \in Denials
    BY <2>1, HeadTailProperties
  <2> QED BY <2>1, <2>2 DEF Denials
<1> QED BY <1>1, <1>2

\* What is left to show of Flow once the registration was accepted.
LEMMA FlowGoesOn ==
  ASSUME phase' \in [Ends -> Phases], phase'["server"] # "new", phase'["client"] # "new",
         spoiled' \in BOOLEAN, garbled' \in BOOLEAN, Roles', ~Has(ToServer', Registers)
  PROVE  Flow'
<1>1. Early'
  BY DEF Early
<1>2. Opening'
  BY DEF Opening, Has, Once
<1> QED BY <1>1, <1>2 DEF Flow

\* The two links after a push.
LEMMA LinksPushed ==
  ASSUME TypesOK, NEW m
  PROVE  /\ link' = PushedTo("server", m) =>
              ToServer' = Append(ToServer, m) /\ ToClient' = ToClient
         /\ link' = PushedTo("client", m) =>
              ToClient' = Append(ToClient, m) /\ ToServer' = ToServer
BY EndsFacts DEF TypesOK, PushedTo, ToServer, ToClient

\* The two links after a read, and what is known when a handler receives.
LEMMA LinksPopped ==
  ASSUME TypesOK
  PROVE  /\ link' = Popped("server") => ToServer' = Tail(ToServer) /\ ToClient' = ToClient
         /\ link' = Popped("client") => ToClient' = Tail(ToClient) /\ ToServer' = ToServer
         /\ \A kind : Receives("server", kind) =>
              /\ ToServer # <<>> /\ Head(ToServer).kind = kind /\ answer["server"] = Nothing
              /\ phase["server"] # "reset"
         /\ \A kind : Receives("client", kind) =>
              /\ ToClient # <<>> /\ Head(ToClient).kind = kind /\ answer["client"] = Nothing
              /\ phase["client"] # "reset"
BY EndsFacts DEF TypesOK, Popped, Receives, ToServer, ToClient

\* Steps that touch neither link, context nor answer.
LEMMA StillStep ==
  ASSUME TypesOK, Flow, Clean, Calm, NEW e \in Ends,
         PackData(e) \/ ReloadCrypto(e) \/ UNCHANGED vars
  PROVE  Flow' /\ Clean' /\ Calm'
<1>1. /\ ctx' = ctx /\ link' = link /\ answer' = answer /\ ping' = ping /\ phase' = phase
      /\ spoiled' = spoiled /\ garbled' = garbled /\ causes' = causes
  BY DEF PackData, ReloadCrypto, vars
<1>2. Client' = Client /\ Server' = Server /\ ToServer' = ToServer /\ ToClient' = ToClient
  BY <1>1 DEF Client, Server, ToServer, ToClient
<1>3. Clean' /\ Calm'
  BY <1>1, <1>2 DEF Clean, Calm
<1>4. Opening'
  BY <1>1, <1>2 DEF Flow, Opening
<1>5. CASE packed' = packed
  <2>1. Roles' /\ Early'
    BY <1>1, <1>2, <1>5 DEF Flow, Roles, Early
  <2> QED BY <1>1, <1>3, <1>4, <2>1 DEF Flow
<1>6. CASE PackData(e)
  <2>1. phase["server"] # "new"
    BY <1>6, PushersBegun DEF PackData
  <2>2. packed' = [packed EXCEPT ![e] = PackMessage(ctx[e])]
    BY <1>6 DEF PackData
  <2>3. PackMessage(ctx[e]).kind = "data"
    BY DEF PackMessage, Data, Message
  <2>4. \A f \in Ends : packed'[f] = Nothing \/ packed'[f].kind = "data"
    BY <2>2, <2>3 DEF TypesOK, Flow, Roles
  <2>5. Roles'
    BY <1>1, <2>4 DEF Flow, Roles
  <2>6. Early'
    BY <1>1, <2>1 DEF Early
  <2> QED BY <1>1, <1>3, <1>4, <2>5, <2>6 DEF Flow
<1> QED BY <1>5, <1>6 DEF ReloadCrypto, vars

\* The application's goroutines push data.
LEMMA PushDataStep ==
  ASSUME TypesOK, Flow, Clean, Calm, NEW e \in Ends, PushData(e)
  PROVE  Flow' /\ Clean' /\ Calm'
<1> DEFINE m == packed[e]
<1>1. /\ ctx' = ctx /\ answer' = answer /\ ping' = ping /\ phase' = phase
      /\ spoiled' = spoiled /\ garbled' = garbled
      /\ link' = PushedTo(Peer(e), m) /\ packed' = [packed EXCEPT ![e] = Nothing]
      /\ causes' = {} => causes = {} /\ m.cipher = ctx[e].write /\ answer[e].hs.seq = 0
  BY DEF PushData
<1>2. Client' = Client /\ Server' = Server
  BY <1>1 DEF Client, Server
<1>3. m \in AnyMessage /\ m.kind = "data" /\ phase["server"] # "new"
  BY PartTypes, PushersBegun DEF PushData, Flow, Roles
<1>4. m \notin Carriers /\ m \notin Confirms /\ m \notin Registers
  BY <1>3, KindFacts
<1>5. /\ Client \in AnyContext /\ Server \in AnyContext
      /\ ToServer \in Seq(AnyMessage) /\ ToClient \in Seq(AnyMessage)
      /\ phase["client"] # "new" /\ ~Has(ToServer, Registers)
  BY <1>3, PartTypes, Begun
<1>6. Roles'
  BY <1>1 DEF Flow, Roles, TypesOK
<1> HIDE DEF m
<1>7. CASE e = "client"
  <2>1. ToServer' = Append(ToServer, m) /\ ToClient' = ToClient
    BY <1>1, <1>7, LinksPushed DEF Peer
  <2>2. ~Has(ToServer', Registers)
    BY <1>3, <1>4, <1>5, <2>1, AppendHas
  <2>3. Flow'
    BY <1>1, <1>3, <1>5, <1>6, <2>2, FlowGoesOn DEF Flow
  <2>4. Lesser(ToServer', ToServer) /\ Lesser(ToClient', ToClient)
    BY <1>3, <1>4, <1>5, <2>1, LesserLinks
  <2>5. Clean'
    BY <1>1, <1>2, <2>4, CleanShrinks DEF Clean
  <2>6. ASSUME causes' = {}
        PROVE  CalmState(Client, Server, Append(ToServer, m), ToClient,
                         answer["server"], answer["client"])
    <3>1. m.cipher = Client.write /\ answer["client"].hs.seq = 0 /\ causes = {}
      BY <1>1, <1>7, <2>6 DEF Client
    <3>2. answer["client"] = Nothing
      BY <3>1 DEF Flow, Roles, TypesOK
    <3>3. /\ CalmState(Client, Server, ToServer, ToClient, answer["server"], answer["client"])
          /\ CleanState(Client, Server, ToServer, ToClient, ping,
                        answer["server"], answer["client"])
      BY <1>3, <3>1 DEF Calm, Clean
    <3> QED BY <1>3, <1>4, <1>5, <3>1, <3>2, <3>3, CalmPushToServer
  <2>7. Calm'
    BY <1>1, <1>2, <1>3, <2>1, <2>6 DEF Calm
  <2> QED BY <2>3, <2>5, <2>7
<1>8. CASE e = "server"
  <2>1. ToClient' = Append(ToClient, m) /\ ToServer' = ToServer
    BY <1>1, <1>8, LinksPushed DEF Peer
  <2>2. Flow'
    BY <1>1, <1>3, <1>5, <1>6, <2>1, FlowGoesOn DEF Flow
  <2>3. Lesser(ToServer', ToServer) /\ Lesser(ToClient', ToClient)
    BY <1>3, <1>4, <1>5, <2>1, LesserLinks
  <2>4. Clean'
    BY <1>1, <1>2, <2>3, CleanShrinks DEF Clean
  <2>5. ASSUME causes' = {}
        PROVE  CalmState(Client, Server, ToServer, Append(ToClient, m),
                         answer["server"], answer["client"])
    <3>1. m.cipher = Server.write /\ answer["server"].hs.seq = 0 /\ causes = {}
      BY <1>1, <1>8, <2>5 DEF Server
    <3>2. answer["server"] \notin Carriers
      BY <3>1 DEF Carriers, CarriesHandshake
    <3>3. CalmState(Client, Server, ToServer, ToClient, answer["server"], answer["client"])
      BY <1>3, <3>1 DEF Calm
    <3> QED BY <1>3, <1>4, <1>5, <3>1, <3>2, <3>3, CalmPushToClient
  <2>6. Calm'
    BY <1>1, <1>2, <1>3, <2>1, <2>5 DEF Calm
  <2> QED BY <2>2, <2>4, <2>6
<1> QED BY <1>7, <1>8 DEF Ends

\* Data is read: undisturbed, it is decrypted.
LEMMA ReadDataStep ==
  ASSUME TypesOK, Flow, Clean, Calm, NEW e \in Ends, OnRecvData(e)
  PROVE  Flow' /\ Clean' /\ Calm'
<1> DEFINE m == Head(link[e])
<1>1. /\ ctx' = ctx /\ answer' = answer /\ ping' = ping /\ packed' = packed
      /\ spoiled' = spoiled /\ causes' = causes /\ link' = Popped(e)
      /\ garbled' = (garbled \/ ~UnpackSucceeds(ctx[e], m))
      /\ Receives(e, "data")
      /\ phase' = phase \/ phase' = [phase EXCEPT ![e] = "reset"]
  BY DEF OnRecvData, AddFault
<1>2. Client' = Client /\ Server' = Server
  BY <1>1 DEF Client, Server
<1>3. phase["server"] # "new" /\ e \in {"client", "server"}
  BY <1>1, ReadersBegun DEF Ends
<1>4. /\ Client \in AnyContext /\ Server \in AnyContext
      /\ ToServer \in Seq(AnyMessage) /\ ToClient \in Seq(AnyMessage)
      /\ phase["client"] # "new" /\ ~Has(ToServer, Registers)
  BY <1>3, PartTypes, Begun
<1>5. Roles'
  BY <1>1 DEF Flow, Roles
<1>6. phase' \in [Ends -> Phases] /\ phase'["server"] # "new" /\ phase'["client"] # "new"
  BY <1>1, <1>3, <1>4, EndsFacts DEF Flow, Phases
<1>7. garbled' \in BOOLEAN /\ spoiled' \in BOOLEAN
  BY <1>1 DEF Flow
<1>8. CASE e = "server"
  <2>1. /\ ToServer' = Tail(ToServer) /\ ToClient' = ToClient
        /\ ToServer # <<>> /\ m = Head(ToServer) /\ m.kind = "data"
    BY <1>1, <1>8, LinksPopped DEF ToServer
  <2>2. m \in AnyMessage /\ m \notin Confirms
    BY <1>4, <2>1, LinkTail, KindFacts
  <2>3. ~Has(ToServer', Registers)
    BY <1>4, <2>1, TailHas
  <2>4. Flow'
    BY <1>5, <1>6, <1>7, <2>3, FlowGoesOn
  <2>5. Lesser(ToServer', ToServer) /\ Lesser(ToClient', ToClient)
    BY <1>4, <2>1, LesserLinks
  <2>6. Clean'
    BY <1>1, <1>2, <2>5, CleanShrinks DEF Clean
  <2>7. ASSUME causes = {}
        PROVE  /\ CalmState(Client, Server, ToServer', ToClient', answer["server"], answer["client"])
               /\ ~garbled'
    <3>1. CalmState(Client, Server, ToServer, ToClient, answer["server"], answer["client"])
      BY <1>3, <2>7 DEF Calm
    <3>2. CalmState(Client, Server, ToServer', ToClient', answer["server"], answer["client"])
      BY <1>4, <2>1, <2>2, <3>1, CalmReads
    <3> DEFINE old == Server.read
               new == Server.staged
    <3>3. Splits(ToServer, Confirms, old, new)
      BY <3>1 DEF CalmState
    <3> HIDE DEF old, new
    <3>4. Readable(m, old)
      BY <1>4, <2>1, <3>3, TailSplits
    <3>5. UnpackSucceeds(ctx[e], m)
      BY <1>8, <3>4 DEF old, Readable, UnpackSucceeds, Server
    <3> QED BY <1>1, <2>7, <3>2, <3>5 DEF Calm
  <2>8. Calm'
    BY <1>1, <1>2, <2>7 DEF Calm
  <2> QED BY <2>4, <2>6, <2>8
<1>9. CASE e = "client"
  <2>1. /\ ToClient' = Tail(ToClient) /\ ToServer' = ToServer
        /\ ToClient # <<>> /\ m = Head(ToClient) /\ m.kind = "data"
    BY <1>1, <1>9, LinksPopped DEF ToClient
  <2>2. m \in AnyMessage /\ m \notin Carriers
    BY <1>4, <2>1, LinkTail, KindFacts
  <2>3. Flow'
    BY <1>4, <1>5, <1>6, <1>7, <2>1, FlowGoesOn
  <2>4. Lesser(ToServer', ToServer) /\ Lesser(ToClient', ToClient)
    BY <1>4, <2>1, LesserLinks
  <2>5. Clean'
    BY <1>1, <1>2, <2>4, CleanShrinks DEF Clean
  <2>6. ASSUME causes = {}
        PROVE  /\ CalmState(Client, Server, ToServer', ToClient', answer["server"], answer["client"])
               /\ ~garbled'
    <3>1. CalmState(Client, Server, ToServer, ToClient, answer["server"], answer["client"])
      BY <1>3, <2>6 DEF Calm
    <3>2. CalmState(Client, Server, ToServer', ToClient', answer["server"], answer["client"])
      BY <1>4, <2>1, <2>2, <3>1, CalmReads
    <3> DEFINE old == Client.read
               new == Server.write
    <3>3. Splits(ToClient, Carriers, old, new)
      BY <3>1 DEF CalmState
    <3> HIDE DEF old, new
    <3>4. Readable(m, old)
      BY <1>4, <2>1, <3>3, TailSplits
    <3>5. UnpackSucceeds(ctx[e], m)
      BY <1>9, <3>4 DEF old, Readable, UnpackSucceeds, Client
    <3> QED BY <1>1, <2>6, <3>2, <3>5 DEF Calm
  <2>7. Calm'
    BY <1>1, <1>2, <2>6 DEF Calm
  <2> QED BY <2>3, <2>5, <2>7
<1> QED BY <1>3, <1>8, <1>9

\* Poll pushes its ping, or is refused.
LEMMA PushPingStep ==
  ASSUME TypesOK, Flow, Clean, Calm, PushPing
  PROVE  Flow' /\ Clean' /\ Calm'
<1>1. /\ ctx' = ctx /\ answer' = answer /\ phase' = phase /\ packed' = packed
      /\ spoiled' = spoiled /\ garbled' = garbled /\ causes' = causes
      /\ ping # Nothing /\ ping' = Nothing
      /\ link' = PushedTo("server", ping) \/ link' = link
  BY DEF PushPing
<1>2. Client' = Client /\ Server' = Server
  BY <1>1 DEF Client, Server
<1>3. phase["server"] # "new" /\ ping \in AnyMessage /\ ping.kind = "ping"
  BY <1>1, PushersBegun DEF TypesOK, Flow, Roles
<1>4. /\ Client \in AnyContext /\ Server \in AnyContext
      /\ ToServer \in Seq(AnyMessage) /\ ToClient \in Seq(AnyMessage)
      /\ phase["client"] # "new" /\ ~Has(ToServer, Registers)
  BY <1>3, PartTypes, Begun
<1>5. Roles'
  BY <1>1 DEF Flow, Roles
<1>6. ping \notin Confirms /\ ping \notin Registers
  BY <1>3 DEF Confirms, IsConfirm, Registers
<1>7. CASE link' = link
  <2>1. ToServer' = ToServer /\ ToClient' = ToClient
    BY <1>7 DEF ToServer, ToClient
  <2>2. Flow'
    BY <1>1, <1>3, <1>4, <1>5, <2>1, FlowGoesOn DEF Flow
  <2>3. Lesser(ToServer', ToServer) /\ Lesser(ToClient', ToClient) /\ Nothing \notin Carriers
    BY <1>4, <2>1, LesserLinks, KindFacts
  <2>4. Clean'
    BY <1>1, <1>2, <2>3, CleanShrinks DEF Clean
  <2>5. Calm'
    BY <1>1, <1>2, <2>1 DEF Calm
  <2> QED BY <2>2, <2>4, <2>5
<1>8. CASE link' = PushedTo("server", ping)
  <2>1. ToServer' = Append(ToServer, ping) /\ ToClient' = ToClient
    BY <1>8, LinksPushed
  <2>2. ~Has(ToServer', Registers)
    BY <1>3, <1>4, <1>6, <2>1, AppendHas
  <2>3. Flow'
    BY <1>1, <1>3, <1>4, <1>5, <2>2, FlowGoesOn DEF Flow
  <2>4. Clean'
    BY <1>1, <1>2, <1>3, <1>4, <1>6, <2>1, CleanPushPing DEF Clean
  <2>5. ASSUME causes = {}
        PROVE  CalmState(Client, Server, Append(ToServer, ping), ToClient,
                         answer["server"], answer["client"])
    <3>1. /\ CalmState(Client, Server, ToServer, ToClient, answer["server"], answer["client"])
          /\ CleanState(Client, Server, ToServer, ToClient, ping,
                        answer["server"], answer["client"])
      BY <1>3, <2>5 DEF Calm, Clean
    <3> QED BY <1>3, <1>4, <1>6, <3>1, CalmPushToServer
  <2>6. Calm'
    BY <1>1, <1>2, <1>3, <2>1, <2>5 DEF Calm
  <2> QED BY <2>3, <2>4, <2>6
<1> QED BY <1>1, <1>7, <1>8

\* A readLoop pushes its answer.
LEMMA PushAnswerStep ==
  ASSUME TypesOK, Flow, Clean, Calm, NEW e \in Ends, PushAnswer(e)
  PROVE  Flow' /\ Clean' /\ Calm'
<1> DEFINE m == answer[e]
<1>1. /\ ctx' = ctx /\ ping' = ping /\ packed' = packed
      /\ spoiled' = spoiled /\ garbled' = garbled /\ causes' = causes
      /\ m # Nothing /\ link' = PushedTo(Peer(e), m)
      /\ answer' = [answer EXCEPT ![e] = Nothing]
      /\ phase' = IF e = "client" THEN [phase EXCEPT ![e] = "registered"] ELSE phase
  BY DEF PushAnswer
<1>2. Client' = Client /\ Server' = Server
  BY <1>1 DEF Client, Server
<1>3. phase["server"] # "new" /\ m \in AnyMessage
  BY <1>1, PushersBegun, PartTypes
<1>4. /\ Client \in AnyContext /\ Server \in AnyContext
      /\ ToServer \in Seq(AnyMessage) /\ ToClient \in Seq(AnyMessage)
      /\ phase["client"] # "new" /\ ~Has(ToServer, Registers)
  BY <1>3, PartTypes, Begun
<1>5. Roles'
  BY <1>1 DEF Flow, Roles, TypesOK
<1>6. phase' \in [Ends -> Phases] /\ phase'["server"] # "new" /\ phase'["client"] # "new"
  BY <1>1, <1>3, <1>4, EndsFacts DEF Flow, Phases, Ends
<1>7. garbled' \in BOOLEAN /\ spoiled' \in BOOLEAN
  BY <1>1 DEF Flow
<1>8. CASE e = "client"
  <2>1. /\ ToServer' = Append(ToServer, m) /\ ToClient' = ToClient
        /\ m = answer["client"] /\ answer'["client"] = Nothing
        /\ answer'["server"] = answer["server"]
    BY <1>1, <1>8, LinksPushed, EndsFacts DEF Peer, TypesOK
  <2>2. m \in Confirms /\ m \notin Registers
    BY <1>1, <1>3, <2>1 DEF Flow, Roles, Confirms, IsConfirm, Registers
  <2> HIDE DEF m
  <2>3. ~Has(ToServer', Registers)
    BY <1>3, <1>4, <2>1, <2>2, AppendHas
  <2>4. Flow'
    BY <1>5, <1>6, <1>7, <2>3, FlowGoesOn
  <2>5. Clean'
    BY <1>1, <1>2, <1>3, <1>4, <2>1, <2>2, CleanPushConfirm DEF Clean
  <2>6. Calm'
    BY <1>1, <1>2, <1>3, <1>4, <1>6, <2>1, <2>2, CalmPushConfirm DEF Calm
  <2> QED BY <2>4, <2>5, <2>6
<1>9. CASE e = "server"
  <2>1. /\ ToClient' = Append(ToClient, m) /\ ToServer' = ToServer
        /\ m = answer["server"] /\ answer'["server"] = Nothing
        /\ answer'["client"] = answer["client"]
    BY <1>1, <1>9, LinksPushed, EndsFacts DEF Peer, TypesOK
  <2>2. m.kind # "data"
    BY <1>1, <2>1 DEF Flow, Roles
  <2> HIDE DEF m
  <2>3. Flow'
    BY <1>4, <1>5, <1>6, <1>7, <2>1, FlowGoesOn
  <2>4. Clean'
    BY <1>1, <1>2, <1>3, <1>4, <2>1, CleanPushReply DEF Clean
  <2>5. Calm'
    BY <1>1, <1>2, <1>3, <1>4, <1>6, <2>1, <2>2, CalmPushReply DEF Calm
  <2> QED BY <2>3, <2>4, <2>5
<1> QED BY <1>8, <1>9 DEF Ends

\* The channel refuses the answer: that of a handshake counts as a disturbance.
LEMMA RefuseAnswerStep ==
  ASSUME TypesOK, Flow, Clean, Calm, NEW e \in Ends, RefuseAnswer(e)
  PROVE  Flow' /\ Clean' /\ Calm'
<1> DEFINE m == answer[e]
           told == CarriesHandshake(m) \/ IsConfirm(m)
<1>1. /\ ctx' = ctx /\ link' = link /\ ping' = ping /\ packed' = packed /\ garbled' = garbled
      /\ m # Nothing /\ answer' = [answer EXCEPT ![e] = Nothing]
      /\ causes' = (IF told THEN causes \cup {"refused"} ELSE causes)
      /\ spoiled' = (spoiled \/ told)
  BY DEF RefuseAnswer
<1>2. Client' = Client /\ Server' = Server /\ ToServer' = ToServer /\ ToClient' = ToClient
  BY <1>1 DEF Client, Server, ToServer, ToClient
<1>3. phase["server"] # "new" /\ m \in AnyMessage
  BY <1>1, PushersBegun, PartTypes
<1>4. /\ ToServer \in Seq(AnyMessage) /\ ToClient \in Seq(AnyMessage)
      /\ phase["client"] # "new" /\ ~Has(ToServer, Registers)
  BY <1>3, PartTypes, Begun
<1>5. m.kind \in {"register_rsp", "pong", "confirm"}
  BY <1>1 DEF Flow, Roles, Ends
<1>6. \/ phase' = phase \/ phase' = [phase EXCEPT ![e] = "reset"]
      \/ phase' = [phase EXCEPT ![e] = "registered"]
  BY <1>5 DEF RefuseAnswer, AddFault
<1>7. phase' \in [Ends -> Phases] /\ phase'["server"] # "new" /\ phase'["client"] # "new"
  BY <1>3, <1>4, <1>6, EndsFacts DEF Flow, Phases
<1>8. Roles'
  BY <1>1 DEF Flow, Roles, TypesOK
<1>9. garbled' \in BOOLEAN /\ spoiled' \in BOOLEAN
  BY <1>1 DEF Flow
<1>10. Flow'
  BY <1>2, <1>4, <1>7, <1>8, <1>9, FlowGoesOn
<1>11. CASE told
  <2>1. spoiled' = TRUE /\ causes' # {}
    BY <1>1, <1>11
  <2>2. Clean' /\ Calm'
    BY <2>1 DEF Clean, Calm
  <2> QED BY <1>10, <2>2
<1>12. CASE ~told
  <2>1. e = "server" /\ m \notin Carriers
    BY <1>1, <1>12 DEF Flow, Roles, Ends, IsConfirm, Carriers
  <2>2. /\ answer'["server"] = Nothing /\ answer'["client"] = answer["client"]
        /\ answer["server"] \notin Carriers /\ Nothing \notin Carriers
    BY <1>1, <2>1, EndsFacts, KindFacts DEF TypesOK
  <2>3. spoiled' = spoiled /\ causes' = causes
    BY <1>1, <1>12 DEF Flow
  <2>4. Lesser(ToServer', ToServer) /\ Lesser(ToClient', ToClient)
    BY <1>2, <1>4, LesserLinks
  <2>5. Clean'
    BY <1>1, <1>2, <2>2, <2>3, <2>4, CleanShrinks DEF Clean
  <2>6. Calm'
    BY <1>1, <1>2, <1>3, <2>2, <2>3 DEF Calm, CalmState
  <2> QED BY <1>10, <2>5, <2>6
<1> QED BY <1>11, <1>12

\* A handshake is not under way when Outstanding says so.
LEMMA NoneOutstanding ==
  ASSUME TypesOK, ~Outstanding
  PROVE  /\ ~Has(ToServer, Carriers) /\ ~Has(ToClient, Carriers)
         /\ ping \notin Carriers /\ answer["server"] \notin Carriers /\ answer["client"] = Nothing
<1>1. \A f \in Ends : \A i \in DOMAIN link[f] : ~CarriesHandshake(link[f][i])
  BY DEF Outstanding, InFlight
<1>2. \A f \in Ends : DOMAIN link[f] = 1..Len(link[f])
  BY DEF TypesOK
<1>3. ~Has(ToServer, Carriers) /\ ~Has(ToClient, Carriers)
  BY <1>1, <1>2, EndsFacts DEF Has, ToServer, ToClient, Carriers
<1> QED BY <1>3 DEF Outstanding, Carriers

\* A request of the client names its new key pair.
LEMMA RequestFacts ==
  ASSUME TypesOK, NEW kind \in {"register", "ping"},
         NEW d, d = HandshakeGenerateSelfKey(Client, 0, used.keys + 1),
         NEW hs, hs \in {NoHandshake, HandshakeWriteSelfPublicKey(d, allow["client"])},
         kind = "ping" => Client.write.alg # NoneAlg,
         NEW m, m = Message(kind, hs, TRUE, Plain)
  PROVE  /\ d.read = Client.read /\ d.write = Client.write
         /\ m \in AnyMessage /\ m.kind = kind /\ m \notin Confirms
         /\ m \in Carriers => m \in Requests(d)
<1> DEFINE c == Client
           k == used.keys + 1
           algs == allow["client"]
<1>1. c \in AnyContext /\ k \in Nat /\ k # 0 /\ 0 \in Nat /\ algs \in SUBSET AnyAlg
      /\ d = HandshakeGenerateSelfKey(c, 0, k) /\ (c.kx = NoKx => c.self = 0)
  BY PartTypes DEF TypesOK, AnyAlg
<1>2. hs \in {NoHandshake, HandshakeWriteSelfPublicKey(d, algs)}
  OBVIOUS
<1> HIDE DEF c, k, algs
<1>3. d \in AnyContext /\ d.kx = c.kx /\ d.self = IF c.kx # NoKx THEN k ELSE c.self
  BY ONLY <1>1, GenerateFacts
<1>4. d.read = c.read /\ d.write = c.write
  BY ONLY <1>1, GenerateCiphers
<1>5. hs \in AnyHandshake
  BY <1>1, <1>2, <1>3, WriteFacts, ConstantFacts
<1>6. m \in AnyMessage /\ m.kind = kind /\ m.hs = hs
  BY <1>5, ConstantFacts DEF Message, AnyMessage, Kinds
<1>7. m \notin Confirms
  BY <1>6 DEF Confirms, IsConfirm
<1>8. ASSUME m \in Carriers PROVE m \in Requests(d)
  <2>1. hs.seq # 0
    BY <1>6, <1>8 DEF Carriers, CarriesHandshake
  <2>2. hs = HandshakeWriteSelfPublicKey(d, algs) /\ hs # NoHandshake
    BY <1>2, <2>1 DEF NoHandshake
  <2>3. d.self # 0 /\ hs.kx = d.kx /\ hs.pub = d.self
    BY <1>1, <1>3, <2>2, WriteFacts
  <2> QED BY <1>4, <1>6, <2>3 DEF Requests, c
<1> QED BY <1>4, <1>6, <1>7, <1>8 DEF c

\* Poll starts a handshake.
LEMMA SendPingStep ==
  ASSUME TypesOK, Flow, Clean, Calm, SendPing
  PROVE  Flow' /\ Clean' /\ Calm'
<1> DEFINE c == Client
           d == HandshakeGenerateSelfKey(c, 0, used.keys + 1)
           hs == IF CanGenerate(c) THEN HandshakeWriteSelfPublicKey(d, allow["client"])
                 ELSE NoHandshake
           m == Message("ping", hs, TRUE, Plain)
<1>1. /\ ctx' = [ctx EXCEPT !["client"] = d] /\ ping' = m
      /\ phase' = phase /\ link' = link /\ answer' = answer /\ packed' = packed
      /\ garbled' = garbled /\ causes' = (IF Outstanding THEN causes \cup {"overlap"} ELSE causes)
      /\ spoiled' = (Outstanding \/ (spoiled /\ InFlight(IsConfirm)))
      /\ c.write.alg # NoneAlg /\ phase["client"] = "registered"
  BY DEF SendPing, Client, GetCryptoSelectAlgorithm
<1>2. hs \in {NoHandshake, HandshakeWriteSelfPublicKey(d, allow["client"])}
  OBVIOUS
<1>3. /\ d.read = c.read /\ d.write = c.write /\ m \in AnyMessage /\ m.kind = "ping"
      /\ m \in Carriers => m \in Requests(d)
  <2> HIDE DEF d, hs, m
  <2>1. d = HandshakeGenerateSelfKey(Client, 0, used.keys + 1) /\ m = Message("ping", hs, TRUE, Plain)
    BY DEF d, m
  <2> QED BY <1>1, <1>2, <2>1, RequestFacts
<1> HIDE DEF d, hs, m
<1>4. Client' = d /\ Server' = Server
  BY <1>1, EndsFacts DEF TypesOK, Client, Server
<1>5. ToServer' = ToServer /\ ToClient' = ToClient
  BY <1>1 DEF ToServer, ToClient
<1>6. phase["server"] # "new"
  BY <1>1, PushersBegun, EndsFacts
<1>7. /\ ToServer \in Seq(AnyMessage) /\ ToClient \in Seq(AnyMessage)
      /\ phase["client"] # "new" /\ ~Has(ToServer, Registers)
  BY <1>6, PartTypes, Begun
<1>8. Roles'
  BY <1>1, <1>3 DEF Flow, Roles
<1>9. garbled' \in BOOLEAN /\ spoiled' \in BOOLEAN /\ phase' \in [Ends -> Phases]
  BY <1>1 DEF Flow
<1>10. Flow'
  BY <1>1, <1>5, <1>6, <1>7, <1>8, <1>9, FlowGoesOn
<1>11. CASE Outstanding
  <2>1. spoiled' = TRUE /\ causes' # {}
    BY <1>1, <1>11
  <2>2. Clean' /\ Calm'
    BY <2>1 DEF Clean, Calm
  <2> QED BY <1>10, <2>2
<1>12. CASE ~Outstanding
  <2>1. /\ ~Has(ToServer, Carriers) /\ ~Has(ToClient, Carriers)
        /\ answer["server"] \notin Carriers /\ answer["client"] = Nothing
    BY <1>12, NoneOutstanding
  <2>2. causes' = causes /\ (~spoiled' => ~spoiled \/ ~InFlight(IsConfirm))
    BY <1>1, <1>12
  <2>3. ~InFlight(IsConfirm) => ~Has(ToServer, Confirms)
    <3>1. DOMAIN ToServer = 1..Len(ToServer)
      BY <1>7
    <3> QED BY <3>1, EndsFacts DEF InFlight, Has, Confirms, ToServer
  <2>4. ~spoiled' => (Has(ToServer, Confirms) =>
                        CleanState(c, Server, ToServer, ToClient, ping,
                                   answer["server"], answer["client"]))
    BY <2>2, <2>3 DEF Clean
  <2> HIDE DEF c
  <2>5. ~spoiled' => CleanState(d, Server, ToServer, ToClient, m,
                                answer["server"], answer["client"])
    BY <1>3, <2>1, <2>4, CleanPing
  <2>6. Clean'
    BY <1>1, <1>4, <1>5, <2>5 DEF Clean
  <2>7. ASSUME causes' = {} PROVE ~spoiled' /\ ~garbled'
    BY <1>1, <1>12, <2>2, <2>7 DEF Calm
  <2>8. CalmState(c, Server, ToServer, ToClient, answer["server"], answer["client"]) =>
          CalmState(d, Server, ToServer, ToClient, answer["server"], answer["client"])
    BY <1>3 DEF CalmState
  <2>9. Calm'
    BY <1>1, <1>4, <1>5, <1>6, <2>2, <2>7, <2>8 DEF Calm, c
  <2> QED BY <1>10, <2>6, <2>9
<1> QED BY <1>11, <1>12

\* The server handles a ping.
LEMMA ReadPingStep ==
  ASSUME TypesOK, Flow, Clean, Calm, OnRecvNodePing
  PROVE  /\ Flow' /\ Clean' /\ Calm'
         /\ Server.pending => Server'.pending
<1> DEFINE m == Head(ToServer)
           s == Server
           c == Client
           negotiates == CarriesHandshake(m) /\ phase["server"] = "registered"
           t == IF negotiates THEN ServerNegotiate(s, m.hs) ELSE s
           hs == IF negotiates /\ ServerAccepts(s, m.hs)
                 THEN HandshakeWriteSelfPublicKey(t, Selected(t)) ELSE NoHandshake
           a == Message("pong", hs, TRUE, Plain)
<1>1. /\ ctx' = [ctx EXCEPT !["server"] = t] /\ answer' = [answer EXCEPT !["server"] = a]
      /\ link' = Popped("server") /\ phase' = phase /\ ping' = ping /\ packed' = packed
      /\ garbled' = garbled /\ causes' = causes /\ spoiled' = spoiled
      /\ Receives("server", "ping")
  BY DEF OnRecvNodePing, Server, ToServer
<1>2. /\ ToServer' = Tail(ToServer) /\ ToClient' = ToClient /\ ToServer # <<>>
      /\ m.kind = "ping" /\ answer["server"] = Nothing /\ phase["server"] # "new"
  BY <1>1, LinksPopped, ReadersBegun
<1>3. /\ c \in AnyContext /\ s \in AnyContext /\ allow["server"] \in SUBSET Algs
      /\ ToServer \in Seq(AnyMessage) /\ ToClient \in Seq(AnyMessage)
      /\ phase["client"] # "new" /\ ~Has(ToServer, Registers)
  BY <1>2, PartTypes, Begun
<1>4. m \in AnyMessage /\ m \notin Confirms /\ (CarriesHandshake(m) <=> m \in Carriers)
  BY <1>2, <1>3, LinkTail DEF Confirms, IsConfirm, Carriers
<1>5. /\ t.read = s.read /\ (s.pending => t.pending)
      /\ ~(negotiates /\ ServerAccepts(s, m.hs)) => t.write = s.write /\ t.staged = s.staged
  <2>1. CASE ~negotiates
    BY <2>1
  <2>2. CASE negotiates
    <3> DEFINE h == m.hs
    <3>1. h \in AnyHandshake /\ h.seq # 0
      BY <1>4, <2>2 DEF AnyMessage, CarriesHandshake
    <3>2. t = ServerNegotiate(s, h)
      BY <2>2
    <3> HIDE DEF h, t, s, negotiates
    <3>3. /\ t.read = s.read /\ (s.pending => t.pending)
          /\ ~ServerAccepts(s, h) => t.write = s.write /\ t.staged = s.staged
      BY <1>3, <3>1, <3>2, ServerCiphers
    <3> QED BY <3>3, <2>2 DEF h
  <2> QED BY <2>1, <2>2
<1>6. a.kind = "pong" /\ (~(negotiates /\ ServerAccepts(s, m.hs)) => a \notin Carriers)
  BY DEF Message, NoHandshake, Carriers, CarriesHandshake
<1>7. ASSUME negotiates, ServerAccepts(s, m.hs), m \in Requests(c)
      PROVE  a \in Carriers /\ a \in Replies(c, t)
  <2>1. t = ServerNegotiate(s, m.hs) /\ m \in Carriers
    BY <1>4, <1>7
  <2>2. a = Message("pong", HandshakeWriteSelfPublicKey(t, Selected(t)), TRUE, Plain)
    BY <1>7
  <2> HIDE DEF t, s, m, c, a
  <2> QED BY <1>2, <1>3, <1>7, <2>1, <2>2, AnswerIsReply
<1> HIDE DEF a, t, hs
<1>8. Client' = c /\ Server' = t /\ answer'["server"] = a /\ answer'["client"] = answer["client"]
  BY <1>1, EndsFacts DEF TypesOK, Client, Server
<1>9. Roles'
  BY <1>1, <1>6, <1>8 DEF Flow, Roles
<1>10. ~Has(ToServer', Registers)
  BY <1>2, <1>3, TailHas
<1>11. Flow'
  BY <1>1, <1>2, <1>3, <1>9, <1>10, FlowGoesOn DEF Flow
<1>12. ASSUME ~spoiled
       PROVE  /\ CleanState(c, t, Tail(ToServer), ToClient, ping, a, answer["client"])
              /\ m \in Carriers =>
                   m \in Requests(c) /\ ~Has(ToClient, Carriers) /\ ~Has(ToServer, Confirms)
  <2>1. CleanState(c, s, ToServer, ToClient, ping, Nothing, answer["client"])
    BY <1>2, <1>12 DEF Clean
  <2>2. CASE m \in Carriers
    <3>1. m \in Requests(c) /\ ~Has(ToClient, Carriers) /\ ~Has(ToServer, Confirms)
      BY <1>2, <1>3, <2>1, <2>2, CleanReply, KindFacts
    <3>2. a \in Carriers => a \in Replies(c, t)
      BY <1>6, <1>7, <3>1
    <3> HIDE DEF s, c
    <3>3. CleanState(c, t, Tail(ToServer), ToClient, ping, a, answer["client"])
      BY <1>2, <1>3, <2>1, <2>2, <3>2, CleanReply
    <3> QED BY <3>1, <3>3
  <2>3. CASE m \notin Carriers
    <3>1. t = s /\ a \notin Carriers
      BY <1>4, <1>6, <2>3 DEF t
    <3>2. Lesser(Tail(ToServer), ToServer) /\ Lesser(ToClient, ToClient)
      BY <1>2, <1>3, LesserLinks
    <3>3. CleanState(c, s, Tail(ToServer), ToClient, ping, a, answer["client"])
      BY <2>1, <3>1, <3>2, CleanShrinks
    <3> QED BY <2>3, <3>1, <3>3
  <2> QED BY <2>2, <2>3
<1>13. Clean'
  BY <1>1, <1>2, <1>8, <1>12 DEF Clean
<1>14. ASSUME causes = {}
       PROVE  CalmState(c, t, Tail(ToServer), ToClient, a, answer["client"])
  <2>1. CalmState(c, s, ToServer, ToClient, Nothing, answer["client"]) /\ ~spoiled
    BY <1>2, <1>14 DEF Calm
  <2>2. CASE negotiates /\ ServerAccepts(s, m.hs)
    <3>1. m \in Carriers
      BY <1>4, <2>2
    <3>2. m \in Requests(c) /\ ~Has(ToClient, Carriers) /\ ~Has(ToServer, Confirms)
      BY <1>12, <2>1, <3>1
    <3>3. a \in Carriers
      BY <1>7, <2>2, <3>2
    <3> HIDE DEF s, c
    <3> QED BY <1>2, <1>3, <1>5, <2>1, <3>2, <3>3, CalmReply
  <2>3. CASE ~(negotiates /\ ServerAccepts(s, m.hs))
    <3>1. a \notin Carriers /\ Nothing \notin Carriers
      BY <1>6, <2>3, KindFacts
    <3>2. t.read = s.read /\ t.write = s.write /\ t.staged = s.staged
      BY <1>5, <2>3
    <3> HIDE DEF s, c
    <3> QED BY <1>2, <1>3, <1>4, <2>1, <3>1, <3>2, CalmReads
  <2> QED BY <2>2, <2>3
<1>15. Calm'
  BY <1>1, <1>2, <1>8, <1>14 DEF Calm
<1> QED BY <1>5, <1>8, <1>11, <1>13, <1>15

\* The server handles a confirmation.
LEMMA ReadConfirmStep ==
  ASSUME TypesOK, Flow, Clean, Calm, OnRecvHandshakeConfirm
  PROVE  /\ Flow' /\ Clean' /\ Calm'
         /\ ~spoiled => Server'.read = Client.write /\ Server.write = Client.read
<1> DEFINE m == Head(ToServer)
           s == Server
           c == Client
           t == ConfirmHandshake(s, m.hs.seq)
<1>1. /\ ctx' = [ctx EXCEPT !["server"] = t] /\ answer' = answer
      /\ link' = Popped("server") /\ phase' = phase /\ ping' = ping /\ packed' = packed
      /\ garbled' = garbled /\ causes' = causes /\ spoiled' = spoiled
      /\ Receives("server", "confirm")
  <2>1. ctx' = [ctx EXCEPT !["server"] = ConfirmHandshake(@, m.hs.seq)]
    BY DEF OnRecvHandshakeConfirm, ToServer
  <2>2. ctx' = [ctx EXCEPT !["server"] = t]
    BY <2>1, EndsFacts DEF Server, TypesOK
  <2> QED BY <2>2 DEF OnRecvHandshakeConfirm
<1>2. /\ ToServer' = Tail(ToServer) /\ ToClient' = ToClient /\ ToServer # <<>>
      /\ m.kind = "confirm" /\ answer["server"] = Nothing /\ phase["server"] # "new"
  BY <1>1, LinksPopped, ReadersBegun
<1>3. /\ c \in AnyContext /\ s \in AnyContext
      /\ ToServer \in Seq(AnyMessage) /\ ToClient \in Seq(AnyMessage)
      /\ phase["client"] # "new" /\ ~Has(ToServer, Registers)
  BY <1>2, PartTypes, Begun
<1>4. m \in AnyMessage /\ m \in Confirms
  BY <1>2, <1>3, LinkTail DEF Confirms, IsConfirm
<1>5. t.write = s.write /\ (s.hsSeq = m.hs.seq /\ s.pending = TRUE => t.read = s.staged)
  BY <1>3, ConfirmCiphers
<1> HIDE DEF t
<1>6. Client' = c /\ Server' = t
  BY <1>1, EndsFacts DEF TypesOK, Client, Server
<1>7. Roles'
  BY <1>1 DEF Flow, Roles
<1>8. ~Has(ToServer', Registers)
  BY <1>2, <1>3, TailHas
<1>9. Flow'
  BY <1>1, <1>2, <1>3, <1>7, <1>8, FlowGoesOn DEF Flow
<1>10. ASSUME ~spoiled
       PROVE  /\ CleanState(c, t, Tail(ToServer), ToClient, ping,
                            answer["server"], answer["client"])
              /\ t.read = s.staged /\ s.staged = c.write /\ s.write = c.read
              /\ Once(ToServer, Confirms)
  <2>1. CleanState(c, s, ToServer, ToClient, ping, answer["server"], answer["client"])
    BY <1>10 DEF Clean
  <2>2. Once(ToServer, Confirms)
    BY <2>1 DEF CleanState
  <2> HIDE DEF s, c, m
  <2>3. /\ CleanState(c, t, Tail(ToServer), ToClient, ping, answer["server"], answer["client"])
        /\ m \in Confirmations(c, s)
    BY <1>2, <1>3, <1>4, <2>1, CleanConfirmed DEF m
  <2> QED BY <1>5, <2>2, <2>3 DEF Confirmations
<1>11. Clean'
  BY <1>1, <1>2, <1>6, <1>10 DEF Clean
<1>12. ASSUME causes = {}
       PROVE  CalmState(c, t, Tail(ToServer), ToClient, answer["server"], answer["client"])
  <2>1. CalmState(c, s, ToServer, ToClient, answer["server"], answer["client"]) /\ ~spoiled
    BY <1>2, <1>12 DEF Calm
  <2>2. t.read = s.staged /\ s.staged = c.write /\ Once(ToServer, Confirms)
    BY <1>10, <2>1
  <2> HIDE DEF s, c
  <2> QED BY <1>2, <1>3, <1>4, <1>5, <2>1, <2>2, CalmConfirmed
<1>13. Calm'
  BY <1>1, <1>2, <1>6, <1>12 DEF Calm
<1> QED BY <1>6, <1>9, <1>10, <1>11, <1>13

\* The client handles an answer.
LEMMA ReadAnswerStep ==
  ASSUME TypesOK, Flow, Clean, Calm, OnRecvNodeRegisterRsp \/ OnRecvNodePong
  PROVE  Flow' /\ Clean' /\ Calm' /\ Server' = Server
<1> DEFINE m == Head(ToClient)
           s == Server
           c == Client
           d == GetNextSequence(HandshakeReadPeerKey(c, m.hs, allow["client"], FALSE))
           a == Message("confirm", m.hs, TRUE, Plain)
           lost == ChoiceLost(c, m.hs)
           taken == /\ ctx' = [ctx EXCEPT !["client"] = d]
                    /\ answer' = [answer EXCEPT !["client"] = a]
                    /\ causes' = (IF lost THEN causes \cup {"reload"} ELSE causes)
                    /\ spoiled' = (spoiled \/ lost)
                    /\ CarriesHandshake(m) /\ phase' = phase
           left == UNCHANGED <<ctx, answer, causes, spoiled>>
<1>1. /\ link' = Popped("client") /\ ping' = ping /\ packed' = packed /\ garbled' = garbled
      /\ Receives("client", "register_rsp") \/ Receives("client", "pong")
      /\ \/ phase' = phase \/ phase' = [phase EXCEPT !["client"] = "reset"]
         \/ phase' = [phase EXCEPT !["client"] = "registered"]
      /\ taken \/ left
  BY DEF OnRecvNodeRegisterRsp, OnRecvNodePong, ClientNegotiate, Client, ToClient
<1>2. /\ ToClient' = Tail(ToClient) /\ ToServer' = ToServer /\ ToClient # <<>>
      /\ m.kind \in {"register_rsp", "pong"} /\ answer["client"] = Nothing
  BY <1>1, LinksPopped
<1>3. /\ c \in AnyContext /\ s \in AnyContext /\ allow["client"] \in SUBSET Algs
      /\ ToServer \in Seq(AnyMessage) /\ ToClient \in Seq(AnyMessage)
  BY PartTypes
<1>4. m \in AnyMessage /\ (CarriesHandshake(m) <=> m \in Carriers)
  BY <1>2, <1>3, LinkTail DEF Carriers
<1>5. phase["client"] # "new"
  BY <1>2 DEF Flow, Opening
<1>6. /\ phase' \in [Ends -> Phases] /\ phase'["server"] = phase["server"]
      /\ phase'["client"] # "new"
  BY <1>1, <1>5, EndsFacts DEF Flow, Phases
<1>7. left /\ m \in Carriers =>
        \/ m.ok # TRUE \/ m.hs.kx # c.kx \/ (m.kind = "pong" /\ c.write.alg = NoneAlg) \/ taken
  <2>1. CASE OnRecvNodePong
    <3>1. m.kind = "pong"
      BY <2>1 DEF OnRecvNodePong, Receives, ToClient
    <3>2. \/ ~(CarriesHandshake(m) /\ GetCryptoSelectAlgorithm(c) # NoneAlg /\ CanRead(c, m.hs))
          \/ ClientNegotiate(m) /\ phase' = phase
      BY <2>1 DEF OnRecvNodePong, ToClient, Client
    <3> QED BY <1>4, <3>1, <3>2 DEF GetCryptoSelectAlgorithm, CanRead, ClientNegotiate, Client
  <2>2. CASE OnRecvNodeRegisterRsp
    <3>1. \/ ~m.ok \/ (CarriesHandshake(m) /\ ~CanRead(c, m.hs)) \/ ~CarriesHandshake(m)
          \/ ClientNegotiate(m) /\ phase' = phase
      BY <2>2 DEF OnRecvNodeRegisterRsp, ToClient, Client
    <3> QED BY <1>4, <3>1 DEF CanRead, ClientNegotiate, Client
  <2> QED BY <2>1, <2>2
<1>8. ASSUME ~spoiled, m \in Carriers PROVE m \in Replies(c, s) /\ Once(ToClient, Carriers)
  <2>1. Once(ToClient, Carriers) /\ Within(ToClient, Carriers, Replies(c, s))
    BY <1>8 DEF Clean, CleanState
  <2> DEFINE A == Replies(c, s)
  <2> HIDE DEF A
  <2>2. Within(ToClient, Carriers, A)
    BY <2>1 DEF A
  <2>3. m \in A
    BY <1>2, <1>3, <1>8, <2>2, TailHas
  <2> QED BY <2>1, <2>3 DEF A
<1>9. ASSUME phase["server"] = "new"
      PROVE  /\ ToClient \in Seq(Denials) /\ Tail(ToClient) \in Seq(Denials)
             /\ m \in Denials /\ m \notin Carriers /\ left /\ phase'["client"] = "reset"
  <2>1. ToClient \in Seq(Denials)
    BY <1>9 DEF Flow, Early
  <2>2. m \in Denials /\ Tail(ToClient) \in Seq(Denials)
    BY <1>2, <2>1, HeadTailProperties
  <2>3. m \notin Carriers /\ m.ok = FALSE /\ m.kind = "register_rsp"
    BY <2>2 DEF Denials
  <2>4. OnRecvNodeRegisterRsp
    BY <2>3 DEF OnRecvNodePong, Receives, ToClient
  <2>5. phase' = [phase EXCEPT !["client"] = "reset"]
    BY <2>3, <2>4 DEF OnRecvNodeRegisterRsp, ToClient
  <2>6. phase'["client"] = "reset"
    BY <2>5, EndsFacts DEF Flow
  <2>7. left
    BY <1>1, <1>4, <2>3
  <2> QED BY <2>1, <2>2, <2>3, <2>6, <2>7
<1>10. CASE left
  <2>1. /\ Client' = c /\ Server' = s /\ ctx' = ctx /\ answer' = answer
        /\ causes' = causes /\ spoiled' = spoiled
    BY <1>10 DEF Client, Server
  <2>2. Lesser(ToServer', ToServer) /\ Lesser(ToClient', ToClient)
    BY <1>2, <1>3, LesserLinks
  <2>3. Clean'
    BY <1>1, <2>1, <2>2, CleanShrinks DEF Clean
  <2>4. Roles'
    BY <1>1, <2>1 DEF Flow, Roles
  <2>5. CASE phase["server"] = "new"
    <3>1. Early'
      BY <1>1, <1>2, <1>6, <1>9, <2>1, <2>5 DEF Flow, Early
    <3>2. Opening'
      BY <1>2, <1>6, <2>1 DEF Flow, Opening
    <3>3. Flow'
      BY <1>1, <1>6, <2>1, <2>4, <3>1, <3>2 DEF Flow
    <3>4. Calm'
      BY <1>1, <1>6, <2>1, <2>5 DEF Calm
    <3> QED BY <2>1, <2>3, <3>3, <3>4
  <2>6. CASE phase["server"] # "new"
    <3>1. ~Has(ToServer', Registers)
      BY <1>2, <2>6, Begun
    <3>2. Flow'
      BY <1>1, <1>6, <2>1, <2>4, <2>6, <3>1, FlowGoesOn DEF Flow
    <3>3. ASSUME causes = {}
          PROVE  CalmState(c, s, ToServer, Tail(ToClient), answer["server"], answer["client"])
      <4>1. /\ CalmState(c, s, ToServer, ToClient, answer["server"], answer["client"])
            /\ ~spoiled
        BY <2>6, <3>3 DEF Calm
      <4>2. CASE m \notin Carriers
        BY <1>2, <1>3, <4>1, <4>2, CalmReads
      <4>3. CASE m \in Carriers
        <5>1. m \in Replies(c, s)
          BY <1>8, <4>1, <4>3
        <5>2. taken
          BY <1>7, <1>10, <4>3, <5>1 DEF Replies
        <5>3. a = answer["client"]
          BY <2>1, <5>2, EndsFacts DEF TypesOK
        <5>4. a # Nothing
          BY DEF Nothing, Message
        <5> QED BY <1>2, <5>3, <5>4
      <4> QED BY <4>2, <4>3
    <3>4. Calm'
      BY <1>1, <1>2, <1>6, <2>1, <3>3 DEF Calm
    <3> QED BY <2>1, <2>3, <3>2, <3>4
  <2> QED BY <2>5, <2>6
<1>11. CASE taken
  <2>1. m \in Carriers /\ phase["server"] # "new" /\ phase' = phase
    BY <1>4, <1>9, <1>11
  <2>2. /\ ctx' = [ctx EXCEPT !["client"] = d] /\ answer' = [answer EXCEPT !["client"] = a]
        /\ causes' = (IF lost THEN causes \cup {"reload"} ELSE causes)
        /\ spoiled' = (spoiled \/ lost)
    BY <1>11
  <2>3. a.kind = "confirm"
    BY DEF Message
  <2>4. ASSUME ~spoiled'
        PROVE  /\ CleanState(d, s, ToServer, Tail(ToClient), ping, answer["server"], a)
               /\ d.read = s.write /\ a # Nothing /\ Once(ToClient, Carriers)
    <3>1. ~spoiled /\ ~lost
      BY <2>2, <2>4 DEF Flow
    <3>2. m \in Replies(c, s) /\ Once(ToClient, Carriers)
      BY <1>8, <2>1, <3>1
    <3>3. CleanState(c, s, ToServer, ToClient, ping, answer["server"], answer["client"])
      BY <3>1 DEF Clean
    <3> DEFINE allowed == allow["client"]
    <3>4. Taken(c, m.hs, allowed, d, a) /\ allowed \in SUBSET Algs
      BY <1>3, <3>1 DEF Taken, ChoiceLost
    <3> HIDE DEF d, a, c, s, lost, taken, left, allowed
    <3>5. d.read = s.write /\ a \in Confirmations(d, s) /\ a # Nothing
      <4> HIDE DEF m
      <4>1. c \in AnyContext /\ s \in AnyContext
        BY <1>3
      <4>2. m \in Carriers /\ m \in Replies(c, s)
        BY <2>1, <3>2
      <4>3. CanRead(c, m.hs) /\ d.read = s.write /\ d.write = s.write
            /\ a \in Confirmations(d, s) /\ a # Nothing
        BY ONLY <4>1, <4>2, <3>4, ReplyIsTaken
      <4> QED BY <4>3
    <3>6. CleanState(d, s, ToServer, Tail(ToClient), ping, answer["server"], a)
      BY <1>2, <1>3, <2>1, <3>3, <3>5, CleanConfirm
    <3> QED BY <3>2, <3>5, <3>6
  <2> HIDE DEF d, a
  <2>5. /\ Client' = d /\ Server' = s /\ answer'["client"] = a
        /\ answer'["server"] = answer["server"]
    BY <2>2, EndsFacts DEF TypesOK, Client, Server
  <2>6. Roles'
    BY <1>1, <2>3, <2>5 DEF Flow, Roles
  <2>7. ~Has(ToServer', Registers)
    BY <1>2, <2>1, Begun
  <2>8. garbled' \in BOOLEAN /\ spoiled' \in BOOLEAN
    BY <1>1, <2>2 DEF Flow, ChoiceLost
  <2>9. Flow'
    BY <1>6, <2>1, <2>6, <2>7, <2>8, FlowGoesOn
  <2>10. Clean'
    BY <1>1, <1>2, <2>4, <2>5 DEF Clean
  <2>11. ASSUME causes' = {}
         PROVE  /\ CalmState(d, s, ToServer, Tail(ToClient), answer["server"], a)
                /\ ~spoiled' /\ ~garbled'
    <3>1. causes = {} /\ ~lost
      BY <2>2, <2>11
    <3>2. /\ CalmState(c, s, ToServer, ToClient, answer["server"], answer["client"])
          /\ ~spoiled /\ ~garbled
      BY <2>1, <3>1 DEF Calm
    <3>3. ~spoiled' /\ ~garbled'
      BY <1>1, <2>2, <3>1, <3>2
    <3>4. d.read = s.write /\ a # Nothing /\ Once(ToClient, Carriers)
      BY <2>4, <3>3
    <3> HIDE DEF c, s
    <3>5. CalmState(d, s, ToServer, Tail(ToClient), answer["server"], a)
      BY <1>2, <1>3, <2>1, <3>2, <3>4, CalmConfirm
    <3> QED BY <3>3, <3>5
  <2>12. Calm'
    BY <1>2, <1>6, <2>5, <2>11 DEF Calm
  <2> QED BY <2>5, <2>9, <2>10, <2>12
<1> QED BY <1>1, <1>10, <1>11

\* The client registers.
LEMMA SendRegisterStep ==
  ASSUME TypesOK, Flow, Clean, Calm, SendRegister
  PROVE  Flow' /\ Clean' /\ Calm' /\ Server' = Server
<1> DEFINE c == Client
           s == Server
           offers == GetCryptoKeyExchangeAlgorithm(c) # NoKx
           made == HandshakeGenerateSelfKey(c, 0, used.keys + 1)
           d == IF offers THEN made ELSE c
           hs == IF offers THEN HandshakeWriteSelfPublicKey(made, allow["client"])
                 ELSE NoHandshake
           m == Message("register", hs, TRUE, Plain)
<1>1. /\ ctx' = IF offers THEN [ctx EXCEPT !["client"] = made] ELSE ctx
      /\ link' = PushedTo("server", m) /\ phase' = [phase EXCEPT !["client"] = "registering"]
      /\ answer' = answer /\ ping' = ping /\ packed' = packed
      /\ garbled' = garbled /\ causes' = causes /\ spoiled' = spoiled
      /\ phase["client"] = "new"
  BY DEF SendRegister, Client
<1>2. /\ phase["server"] = "new" /\ ToServer = <<>> /\ ToClient = <<>>
      /\ s.kxUsed = NoKx /\ s.write = c.read /\ s.read = c.write
      /\ ping = Nothing /\ answer["server"] = Nothing /\ answer["client"] = Nothing
  BY <1>1, EndsFacts DEF Flow, Opening, Early
<1>3. Client' = d /\ Server' = s
  BY <1>1, EndsFacts DEF TypesOK, Client, Server
<1>4. /\ d.read = c.read /\ d.write = c.write /\ m \in AnyMessage /\ m.kind = "register"
      /\ m \notin Confirms /\ (m \in Carriers => m \in Requests(d))
  <2>1. CASE offers
    <3>1. d = made /\ hs \in {NoHandshake, HandshakeWriteSelfPublicKey(d, allow["client"])}
      BY <2>1
    <3>2. d = HandshakeGenerateSelfKey(Client, 0, used.keys + 1) /\ m = Message("register", hs, TRUE, Plain)
      BY <2>1
    <3> HIDE DEF d, hs, m, made, offers
    <3> QED BY <3>1, <3>2, RequestFacts
  <2>2. CASE ~offers
    <3>1. m = Message("register", NoHandshake, TRUE, Plain) /\ d = c
      BY <2>2
    <3> HIDE DEF m
    <3>2. m \in AnyMessage /\ m.kind = "register" /\ m.hs = NoHandshake
      BY <3>1, ConstantFacts DEF Message, AnyMessage, Kinds
    <3>3. m \notin Confirms /\ m \notin Carriers
      BY <3>2 DEF Confirms, IsConfirm, Carriers, CarriesHandshake, NoHandshake
    <3> QED BY <3>1, <3>2, <3>3
  <2> QED BY <2>1, <2>2
<1> HIDE DEF d, m, made, hs, offers
<1>5. ToServer' = Append(<<>>, m) /\ ToClient' = <<>>
  BY <1>1, <1>2, LinksPushed
<1>6. /\ phase' \in [Ends -> Phases] /\ phase'["server"] = "new"
      /\ phase'["client"] = "registering"
  BY <1>1, <1>2, EndsFacts DEF Flow, Phases
<1>7. Roles'
  BY <1>1 DEF Flow, Roles
<1>8. m \in Registers
  BY <1>4 DEF Registers
<1>9. Early'
  <2>1. ToServer' \in Seq(Registers) /\ ToClient' \in Seq(Denials)
    BY <1>5, <1>8, AppendProperties, EmptySeq
  <2> QED BY <1>1, <1>2, <1>6, <2>1 DEF Flow, Early
<1>10. Opening'
  <2>1. Once(ToServer', Registers)
    BY <1>4, <1>5, AppendHas, EmptyLink
  <2> QED BY <1>2, <1>3, <1>4, <1>6, <2>1 DEF Opening
<1>11. Flow'
  BY <1>1, <1>6, <1>7, <1>9, <1>10 DEF Flow
<1>12. CleanState(d, s, Append(<<>>, m), <<>>, Nothing, Nothing, Nothing)
  BY <1>4, CleanRegister
<1>13. Clean'
  BY <1>1, <1>2, <1>3, <1>5, <1>12 DEF Clean
<1>14. Calm'
  BY <1>1, <1>6 DEF Calm
<1> QED BY <1>3, <1>11, <1>13, <1>14

\* The server handles the registration request: it accepts it, or denies it
\* twice.
LEMMA RegisterReqStep ==
  ASSUME TypesOK, Flow, Clean, Calm, OnRecvNodeRegisterReq
  PROVE  /\ Flow' /\ Clean' /\ Calm'
         /\ Server.pending => Server'.pending
<1> DEFINE m == Head(ToServer)
           s == Server
           c == Client
           denial == Message("register_rsp", NoHandshake, FALSE, Plain)
<1>0. PICK token \in BOOLEAN, accepted \in BOOLEAN :
        LET negotiates == token /\ CarriesHandshake(m)
            after == IF negotiates THEN ServerNegotiate(s, m.hs) ELSE s
            hs == IF GetCryptoKeyExchangeAlgorithm(after) # NoKx
                  THEN HandshakeWriteSelfPublicKey(after, Selected(after))
                  ELSE NoHandshake
        IN  /\ ctx' = [ctx EXCEPT !["server"] = after]
            /\ IF token /\ accepted /\ (negotiates => ServerAccepts(s, m.hs))
               THEN /\ phase' = [phase EXCEPT !["server"] = "registered"]
                    /\ answer' = [answer EXCEPT !["server"] =
                                    Message("register_rsp", hs, TRUE, Plain)]
                    /\ link' = Popped("server")
               ELSE /\ link' = [Popped("server") EXCEPT !["client"] = @ \o <<denial, denial>>]
                    /\ UNCHANGED <<phase, answer>>
  BY DEF OnRecvNodeRegisterReq, Server, ToServer
<1> DEFINE negotiates == token /\ CarriesHandshake(m)
           t == IF negotiates THEN ServerNegotiate(s, m.hs) ELSE s
           hs == IF GetCryptoKeyExchangeAlgorithm(t) # NoKx
                 THEN HandshakeWriteSelfPublicKey(t, Selected(t)) ELSE NoHandshake
           a == Message("register_rsp", hs, TRUE, Plain)
           granted == /\ negotiates => ServerAccepts(s, m.hs)
                      /\ phase' = [phase EXCEPT !["server"] = "registered"]
                      /\ answer' = [answer EXCEPT !["server"] = a]
                      /\ link' = Popped("server")
           denied == /\ link' = [Popped("server") EXCEPT !["client"] = @ \o <<denial, denial>>]
                     /\ phase' = phase /\ answer' = answer
<1>1. ctx' = [ctx EXCEPT !["server"] = t] /\ (granted \/ denied)
  BY <1>0
<1>2. /\ ping' = ping /\ packed' = packed /\ garbled' = garbled /\ causes' = causes
      /\ spoiled' = spoiled /\ Receives("server", "register")
  BY DEF OnRecvNodeRegisterReq
<1>3. /\ ToServer # <<>> /\ m.kind = "register" /\ answer["server"] = Nothing
  BY <1>2, LinksPopped
<1>4. /\ c \in AnyContext /\ s \in AnyContext /\ allow["server"] \in SUBSET Algs
      /\ ToServer \in Seq(AnyMessage) /\ ToClient \in Seq(AnyMessage)
  BY PartTypes
<1>5. m \in AnyMessage /\ m \in Registers /\ (CarriesHandshake(m) <=> m \in Carriers)
  BY <1>3, <1>4, LinkTail DEF Registers, Carriers
<1>6. Has(ToServer, Registers)
  BY <1>3, <1>4, <1>5, TailHas
<1>7. /\ phase["server"] = "new" /\ phase["client"] # "new" /\ Once(ToServer, Registers)
      /\ s.kxUsed = NoKx /\ s.write = c.read /\ s.read = c.write
  BY <1>3, <1>6 DEF Flow, Opening
<1>8. /\ ToServer \in Seq(Registers) /\ ToClient \in Seq(Denials)
      /\ ping = Nothing /\ answer["client"] = Nothing
      /\ \A e \in Ends : answer[e] = Nothing /\ packed[e] = Nothing
      /\ phase["client"] # "registered"
  BY <1>7, EndsFacts DEF Flow, Early
<1>9. Tail(ToServer) = <<>>
  <2> DEFINE r == Tail(ToServer)
  <2>1. ~Has(r, Registers)
    BY <1>3, <1>4, <1>5, <1>7, TailHas
  <2>2. r \in Seq(Registers)
    BY <1>3, <1>8, HeadTailProperties
  <2> HIDE DEF r
  <2>3. r # <<>> => r[1] \in Registers /\ 1 \in 1..Len(r)
    BY <2>2, EmptySeq
  <2>4. r = <<>>
    BY <2>1, <2>3 DEF Has
  <2> QED BY <2>4 DEF r
<1>10. /\ t.read = s.read /\ (s.pending => t.pending)
       /\ negotiates /\ ServerAccepts(s, m.hs) => t.kxUsed # NoKx
  <2>1. CASE ~negotiates
    BY <2>1
  <2>2. CASE negotiates
    <3> DEFINE h == m.hs
    <3>1. h \in AnyHandshake /\ h.seq # 0
      BY <1>5, <2>2 DEF AnyMessage, CarriesHandshake
    <3>2. t = ServerNegotiate(s, h)
      BY <2>2
    <3> HIDE DEF h, t, s, negotiates
    <3>3. /\ t.read = s.read /\ (s.pending => t.pending)
          /\ ServerAccepts(s, h) => Accepted(s, h, t)
      BY <1>4, <3>1, <3>2, ServerCiphers
    <3> QED BY <3>3 DEF Accepted, h
  <2> QED BY <2>1, <2>2
<1>11. a.kind = "register_rsp" /\ (~negotiates => a \notin Carriers)
  BY <1>7 DEF GetCryptoKeyExchangeAlgorithm, Message, NoHandshake, Carriers, CarriesHandshake
<1>12. ASSUME negotiates, ServerAccepts(s, m.hs), m \in Requests(c)
       PROVE  a \in Carriers /\ a \in Replies(c, t)
  <2>1. t = ServerNegotiate(s, m.hs) /\ m \in Carriers
    BY <1>5, <1>12
  <2>2. a = Message("register_rsp", HandshakeWriteSelfPublicKey(t, Selected(t)), TRUE, Plain)
    BY <1>10, <1>12 DEF GetCryptoKeyExchangeAlgorithm
  <2> HIDE DEF t, s, m, c, a
  <2> QED BY <1>4, <1>12, <2>1, <2>2, AnswerIsReply
<1> HIDE DEF a, t, hs
<1>13. Client' = c /\ Server' = t
  BY <1>1, EndsFacts DEF TypesOK, Client, Server
<1>14. ~Has(<<>>, Carriers) /\ ~Has(<<>>, Confirms) /\ ~Has(<<>>, Registers)
       /\ Once(<<>>, Registers) /\ Nothing \notin Carriers
  BY EmptyLink, KindFacts
<1>15. \A q \in Seq(Denials) : ~Has(q, Carriers)
  BY DEF Has, Denials
<1>16. CASE denied
  <2>1. ToServer' = <<>> /\ ToClient' = ToClient \o <<denial, denial>>
    BY <1>9, <1>16, EndsFacts DEF TypesOK, Popped, ToServer, ToClient
  <2>2. denial \in Denials
    BY ConstantFacts
       DEF Message, NoHandshake, AnyMessage, Kinds, Denials, Carriers, CarriesHandshake
  <2> HIDE DEF denial
  <2>3. ToServer' \in Seq(Registers) /\ ToClient' \in Seq(Denials)
    BY <1>8, <2>1, <2>2, ConcatProperties, EmptySeq
  <2>4. Roles'
    BY <1>2, <1>16 DEF Flow, Roles
  <2>5. Early'
    BY <1>2, <1>8, <1>16, <2>3 DEF Early
  <2>6. Opening'
    BY <1>7, <1>14, <1>16, <2>1 DEF Opening
  <2>7. Flow'
    BY <1>2, <1>16, <2>4, <2>5, <2>6 DEF Flow
  <2>8. CleanState(c, t, <<>>, ToClient', Nothing, Nothing, Nothing)
    BY <1>14, <1>15, <2>3, CleanBlank
  <2>9. Clean'
    BY <1>2, <1>3, <1>8, <1>13, <1>16, <2>1, <2>8 DEF Clean
  <2>10. Calm'
    BY <1>2, <1>7, <1>16 DEF Calm
  <2> QED BY <1>10, <1>13, <2>7, <2>9, <2>10
<1>17. CASE granted
  <2>1. ToServer' = <<>> /\ ToClient' = ToClient
    BY <1>9, <1>17, LinksPopped
  <2>2. /\ answer'["server"] = a /\ answer'["client"] = Nothing
        /\ phase' \in [Ends -> Phases] /\ phase'["server"] = "registered"
        /\ phase'["client"] = phase["client"]
    BY <1>8, <1>17, EndsFacts DEF TypesOK, Flow, Phases
  <2>3. Roles'
    BY <1>2, <1>11, <2>2 DEF Flow, Roles
  <2>4. Flow'
    BY <1>2, <1>7, <1>14, <2>1, <2>2, <2>3, FlowGoesOn DEF Flow
  <2>5. ASSUME ~spoiled
        PROVE  /\ CleanState(c, t, <<>>, ToClient, Nothing, a, Nothing)
               /\ a \notin Carriers => t.write = c.read
    <3>1. CASE negotiates
      <4>1. CleanState(c, s, ToServer, ToClient, ping, Nothing, Nothing)
        BY <1>3, <1>8, <2>5 DEF Clean
      <4>2. m \in Carriers
        BY <1>5, <3>1
      <4>3. m \in Requests(c)
        BY <1>3, <1>4, <1>14, <4>1, <4>2, CleanReply
      <4>4. a \in Carriers /\ a \in Replies(c, t)
        BY <1>12, <1>17, <3>1, <4>3
      <4> HIDE DEF s, c
      <4>5. CleanState(c, t, Tail(ToServer), ToClient, ping, a, Nothing)
        BY <1>3, <1>4, <4>1, <4>2, <4>4, CleanReply
      <4> QED BY <1>8, <1>9, <4>4, <4>5
    <3>2. CASE ~negotiates
      <4>1. t = s /\ a \notin Carriers /\ ~Has(ToClient, Carriers)
        BY <1>8, <1>11, <1>15, <3>2 DEF t
      <4> QED BY <1>7, <1>14, <4>1, CleanBlank
    <3> QED BY <3>1, <3>2
  <2>6. Clean'
    BY <1>2, <1>8, <1>13, <2>1, <2>2, <2>5 DEF Clean
  <2>7. ASSUME causes = {}
        PROVE  CalmState(c, t, <<>>, ToClient, a, Nothing) /\ ~spoiled /\ ~garbled
    <3>1. ~spoiled /\ ~garbled
      BY <2>7 DEF Calm
    <3>2. (a \notin Carriers => t.write = c.read) /\ t.read = c.write
      BY <1>7, <1>10, <2>5, <3>1
    <3> HIDE DEF c, s
    <3>3. CalmState(c, t, <<>>, ToClient, a, Nothing)
      BY <1>8, <3>2, CalmBegins
    <3> QED BY <3>1, <3>3
  <2>8. Calm'
    BY <1>2, <1>13, <2>1, <2>2, <2>7 DEF Calm
  <2> QED BY <1>10, <1>13, <2>4, <2>6, <2>8
<1> QED BY <1>1, <1>16, <1>17

\* At the start both ends have the same ciphers and nothing is under way.
LEMMA InitHandshakes == Init => Flow /\ Clean /\ Calm
<1> SUFFICES ASSUME Init PROVE Flow /\ Clean /\ Calm
  OBVIOUS
<1>1. PICK kx \in [Ends -> AnyKx], preset \in BOOLEAN, primed \in BOOLEAN :
        LET fresh(e) == [NewConnectionContext(kx[e]) EXCEPT
                           !.read = IF preset THEN PresetCipher ELSE Plain,
                           !.write = IF preset THEN PresetCipher ELSE Plain]
        IN  ctx = [e \in Ends |-> IF primed /\ e = "client"
                                  THEN HandshakeGenerateSelfKey(fresh(e), 0, 1)
                                  ELSE fresh(e)]
  BY ZenonT(60) DEF Init, AnyKx
<1> DEFINE cipher == IF preset THEN PresetCipher ELSE Plain
           fresh(e) == [NewConnectionContext(kx[e]) EXCEPT !.read = cipher, !.write = cipher]
<1>2. cipher \in AnyCipher
  BY ConstantFacts DEF PresetCipher, AnyCipher
<1>3. ctx = [e \in Ends |-> IF primed /\ e = "client"
                           THEN HandshakeGenerateSelfKey(fresh(e), 0, 1) ELSE fresh(e)]
  BY <1>1
<1> HIDE DEF cipher
<1>4. \A e \in Ends : /\ fresh(e) \in AnyContext /\ fresh(e).kxUsed = NoKx
                      /\ fresh(e).read = cipher /\ fresh(e).write = cipher
  <2> SUFFICES ASSUME NEW e \in Ends
               PROVE  /\ fresh(e) \in AnyContext /\ fresh(e).kxUsed = NoKx
                      /\ fresh(e).read = cipher /\ fresh(e).write = cipher
    OBVIOUS
  <2> DEFINE c == NewConnectionContext(kx[e])
  <2>1. c \in AnyContext /\ c.kxUsed = NoKx
    BY ConstantFacts DEF NewConnectionContext, AnyContext
  <2> HIDE DEF c
  <2> QED BY <1>2, <2>1 DEF AnyContext, c
<1> HIDE DEF fresh
<1>5. Server = fresh("server")
      /\ Client \in {fresh("client"), HandshakeGenerateSelfKey(fresh("client"), 0, 1)}
  BY <1>3, EndsFacts DEF Client, Server
<1>6. Client.read = cipher /\ Client.write = cipher
  <2> DEFINE c == fresh("client")
             made == HandshakeGenerateSelfKey(c, 0, 1)
  <2>1. c \in AnyContext /\ c.read = cipher /\ c.write = cipher
    BY <1>4, EndsFacts
  <2> HIDE DEF c
  <2>2. made.read = c.read /\ made.write = c.write
    BY <2>1, GenerateCiphers
  <2> HIDE DEF made
  <2> QED BY <1>5, <2>1, <2>2 DEF c, made
<1>7. Server.kxUsed = NoKx /\ Server.write = Client.read /\ Server.read = Client.write
  BY <1>4, <1>5, <1>6, EndsFacts
<1>8. /\ ToServer = <<>> /\ ToClient = <<>> /\ ping = Nothing
      /\ phase \in [Ends -> Phases] /\ phase["server"] = "new" /\ phase["client"] = "new"
      /\ \A e \in Ends : answer[e] = Nothing /\ packed[e] = Nothing
      /\ spoiled = FALSE /\ garbled = FALSE /\ causes = {}
  BY EndsFacts DEF Init, ToServer, ToClient, Phases
<1>9. answer["server"] = Nothing /\ answer["client"] = Nothing
  BY <1>8, EndsFacts
<1>10. Roles
  BY <1>8, <1>9 DEF Roles
<1>11. Early
  BY <1>8, EmptySeq DEF Early
<1>12. Opening
  BY <1>7, <1>8, EmptyLink DEF Opening
<1>13. Flow
  BY <1>8, <1>10, <1>11, <1>12 DEF Flow
<1>14. Clean
  BY <1>8, <1>9, EmptyLink, KindFacts, CleanBlank DEF Clean
<1>15. Calm
  BY <1>8 DEF Calm
<1> QED BY <1>13, <1>14, <1>15

\* What CleanHandshakeAgrees says of one step.
AgreeStep ==
    (ctx["server"].pending /\ ~ctx["server"].pending' /\ ~spoiled)
      => /\ ctx["server"].read' = ctx["client"].write
         /\ ctx["server"].write = ctx["client"].read

\* Every step keeps the handshakes in order; only a confirmation ends one.
LEMMA NextHandshakes ==
  HandshakeInv /\ [Next]_vars => HandshakeInv' /\ [AgreeStep]_vars
<1> SUFFICES ASSUME HandshakeInv, [Next]_vars PROVE HandshakeInv' /\ [AgreeStep]_vars
  OBVIOUS
<1>1. SessionInv /\ SessionInv' /\ Flow /\ Clean /\ Calm
  BY NextNumbered DEF HandshakeInv
<1>2. TypesOK
  BY <1>1, SessionTypes
<1>3. (Server.pending => Server'.pending) => AgreeStep
  BY DEF AgreeStep, Server
<1>4. ctx' = ctx => (Server.pending => Server'.pending)
  BY DEF Server
<1>5. CASE UNCHANGED vars
  BY <1>1, <1>2, <1>5, StillStep, EndsFacts DEF HandshakeInv
<1>6. CASE SendRegister
  <2>1. Flow' /\ Clean' /\ Calm' /\ Server' = Server
    BY <1>1, <1>2, <1>6, SendRegisterStep
  <2> QED BY <1>1, <1>3, <2>1 DEF HandshakeInv
<1>7. CASE OnRecvNodeRegisterReq
  <2>1. Flow' /\ Clean' /\ Calm' /\ (Server.pending => Server'.pending)
    BY <1>1, <1>2, <1>7, RegisterReqStep
  <2> QED BY <1>1, <1>3, <2>1 DEF HandshakeInv
<1>8. CASE OnRecvNodeRegisterRsp \/ OnRecvNodePong
  <2>1. Flow' /\ Clean' /\ Calm' /\ Server' = Server
    BY <1>1, <1>2, <1>8, ReadAnswerStep
  <2> QED BY <1>1, <1>3, <2>1 DEF HandshakeInv
<1>9. CASE SendPing
  <2>1. Flow' /\ Clean' /\ Calm'
    BY <1>1, <1>2, <1>9, SendPingStep
  <2>2. Server' = Server
    BY <1>2, <1>9, EndsFacts DEF SendPing, TypesOK, Server
  <2> QED BY <1>1, <1>3, <2>1, <2>2 DEF HandshakeInv
<1>10. CASE PushPing
  <2>1. Flow' /\ Clean' /\ Calm'
    BY <1>1, <1>2, <1>10, PushPingStep
  <2>2. ctx' = ctx
    BY <1>10 DEF PushPing
  <2> QED BY <1>1, <1>3, <1>4, <2>1, <2>2 DEF HandshakeInv
<1>11. CASE OnRecvNodePing
  <2>1. Flow' /\ Clean' /\ Calm' /\ (Server.pending => Server'.pending)
    BY <1>1, <1>2, <1>11, ReadPingStep
  <2> QED BY <1>1, <1>3, <2>1 DEF HandshakeInv
<1>12. CASE OnRecvHandshakeConfirm
  <2>1. /\ Flow' /\ Clean' /\ Calm'
        /\ ~spoiled => Server'.read = Client.write /\ Server.write = Client.read
    BY <1>1, <1>2, <1>12, ReadConfirmStep
  <2>2. AgreeStep
    BY <2>1 DEF AgreeStep, Server, Client
  <2> QED BY <1>1, <2>1, <2>2 DEF HandshakeInv
<1>13. ASSUME NEW e \in Ends, PushAnswer(e) \/ RefuseAnswer(e) \/ PackData(e) \/ PushData(e)
                                \/ OnRecvData(e) \/ ReloadCrypto(e)
       PROVE  HandshakeInv' /\ [AgreeStep]_vars
  <2>1. Flow' /\ Clean' /\ Calm'
    BY <1>1, <1>2, <1>13, PushAnswerStep, RefuseAnswerStep, StillStep, PushDataStep, ReadDataStep
  <2>2. ctx' = ctx
    BY <1>13 DEF PushAnswer, RefuseAnswer, PackData, PushData, OnRecvData, ReloadCrypto
  <2> QED BY <1>1, <1>3, <1>4, <2>1, <2>2 DEF HandshakeInv
<1> QED
  BY <1>5, <1>6, <1>7, <1>8, <1>9, <1>10, <1>11, <1>12, <1>13 DEF Next

\* In every reachable state an undisturbed handshake is the only one under way,
\* and undisturbed traffic can be read when its time comes.
THEOREM SessionHandshakes == Spec => []HandshakeInv
<1>1. Init => HandshakeInv
  BY InitNumbered, InitHandshakes DEF HandshakeInv
<1> QED BY <1>1, NextHandshakes, PTL DEF Spec

\* A change of keys under traffic loses no message by itself: whatever is read is
\* decrypted by UnpackMessage, unless handshakes overlapped, an answer was
\* refused, the algorithm was disallowed in between or data was pushed in the
\* window of a change.
THEOREM SessionLostOnlyWhenDisturbed == Spec => []LostOnlyWhenDisturbed
<1>1. HandshakeInv => LostOnlyWhenDisturbed
  BY DEF HandshakeInv, Calm, LostOnlyWhenDisturbed
<1> QED BY <1>1, SessionHandshakes, PTL

\* A handshake that nothing disturbs puts both directions on one cipher when
\* ConfirmHandshake promotes the staged one, whatever came before it.
THEOREM SessionCleanHandshakeAgrees == Spec => CleanHandshakeAgrees
<1>1. [AgreeStep]_vars <=>
        [(ctx["server"].pending /\ ~ctx["server"].pending' /\ ~spoiled)
           => /\ ctx["server"].read' = ctx["client"].write
              /\ ctx["server"].write = ctx["client"].read]_vars
  BY DEF AgreeStep
<1> QED
  BY <1>1, NextHandshakes, SessionHandshakes, PTL DEF Spec, CleanHandshakeAgrees

----------------------------------------------------------------------------
(* The types with their bounds.                                            *)

\* An end that was not reset has not used up its faults, and only such an end
\* is about to push an answer.
FaultsInv ==
    /\ faults \in [Ends -> 0..FaultTolerant]
    /\ \A e \in Ends : phase[e] # "reset" => faults[e] < FaultTolerant
    /\ \A e \in Ends : answer[e] # Nothing => phase[e] # "reset"
    /\ causes \subseteq {"overlap", "refused", "reload", "window", "stale"}

\* One more fault of an end that was not reset.
LEMMA FaultAdded ==
  ASSUME FaultsInv, phase \in [Ends -> Phases], NEW e \in Ends, phase[e] # "reset", AddFault(e)
  PROVE  /\ faults' \in [Ends -> 0..FaultTolerant]
         /\ \A f \in Ends : phase'[f] # "reset" => faults'[f] < FaultTolerant
         /\ \A f \in Ends : f # e => phase'[f] = phase[f]
<1>1. /\ faults' = [faults EXCEPT ![e] = @ + 1]
      /\ phase' = IF faults[e] + 1 >= FaultTolerant THEN [phase EXCEPT ![e] = "reset"] ELSE phase
  BY DEF AddFault
<1>2. /\ FaultTolerant \in Nat /\ faults[e] \in Nat /\ faults[e] < FaultTolerant
      /\ faults \in [Ends -> 0..FaultTolerant]
      /\ \A f \in Ends : phase[f] # "reset" => faults[f] < FaultTolerant
  BY CipherAssumption DEF FaultsInv
<1>3. faults[e] + 1 \in 0..FaultTolerant
  BY <1>2
<1>4. faults' \in [Ends -> 0..FaultTolerant] /\ faults'[e] = faults[e] + 1
      /\ \A f \in Ends : f # e => faults'[f] = faults[f]
  BY <1>1, <1>2, <1>3
<1>5. CASE faults[e] + 1 >= FaultTolerant
  <2>1. phase'[e] = "reset" /\ \A f \in Ends : f # e => phase'[f] = phase[f]
    BY <1>1, <1>5
  <2> QED BY <1>2, <1>4, <2>1
<1>6. CASE ~(faults[e] + 1 >= FaultTolerant)
  <2>1. phase' = phase /\ faults[e] + 1 < FaultTolerant
    BY <1>1, <1>2, <1>6
  <2> QED BY <1>2, <1>4, <2>1
<1> QED BY <1>5, <1>6

\* What a step of one end has to keep.
LEMMA FaultsOfOneEnd ==
  ASSUME FaultsInv, phase \in [Ends -> Phases], NEW e \in Ends,
         faults' \in {faults, Cleared(e)}, phase'[e] # "reset" => phase[e] # "reset" \/ faults' = Cleared(e),
         \A f \in Ends : f # e => phase'[f] = phase[f] /\ answer'[f] = answer[f],
         answer'[e] # Nothing => phase'[e] # "reset",
         causes' \subseteq {"overlap", "refused", "reload", "window", "stale"}
  PROVE  FaultsInv'
<1>1. FaultTolerant \in Nat /\ 0 < FaultTolerant /\ 0 \in 0..FaultTolerant
  BY CipherAssumption
<1>2. /\ faults' \in [Ends -> 0..FaultTolerant]
      /\ \A f \in Ends : f # e => faults'[f] = faults[f]
      /\ faults'[e] \in {faults[e], 0} /\ (faults' = Cleared(e) => faults'[e] = 0)
  BY <1>1 DEF FaultsInv, Cleared
<1>3. ASSUME NEW f \in Ends, phase'[f] # "reset" PROVE faults'[f] < FaultTolerant
  <2>1. CASE f = e
    BY <1>1, <1>2, <1>3, <2>1 DEF FaultsInv
  <2>2. CASE f # e
    BY <1>2, <1>3, <2>2 DEF FaultsInv
  <2> QED BY <2>1, <2>2
<1>4. ASSUME NEW f \in Ends, answer'[f] # Nothing PROVE phase'[f] # "reset"
  <2>1. CASE f = e
    BY <1>4, <2>1
  <2>2. CASE f # e
    BY <1>4, <2>2 DEF FaultsInv
  <2> QED BY <2>1, <2>2
<1> QED BY <1>2, <1>3, <1>4 DEF FaultsInv

\* Initially there was no fault.
LEMMA InitFaults == Init => FaultsInv
<1> SUFFICES ASSUME Init PROVE FaultsInv
  OBVIOUS
<1>1. FaultTolerant \in Nat /\ 0 < FaultTolerant /\ 0 \in 0..FaultTolerant
  BY CipherAssumption
<1>2. /\ faults = [e \in Ends |-> 0] /\ phase = [e \in Ends |-> "new"]
      /\ answer = [e \in Ends |-> Nothing] /\ causes = {}
  BY DEF Init
<1> QED BY <1>1, <1>2 DEF FaultsInv

\* Every step counts faults within the limit.
LEMMA NextFaults ==
  ASSUME TypesOK, Flow, FaultsInv, [Next]_vars
  PROVE  FaultsInv'
<1>0. /\ phase \in [Ends -> Phases] /\ answer \in [Ends -> AnyMessage]
      /\ "client" \in Ends /\ "server" \in Ends
      /\ causes \subseteq {"overlap", "refused", "reload", "window", "stale"}
  BY EndsFacts DEF TypesOK, Flow, FaultsInv
<1>1. CASE UNCHANGED vars
  BY <1>1 DEF vars, FaultsInv
<1>2. CASE SendRegister
  <2>1. /\ phase["client"] = "new" /\ phase' = [phase EXCEPT !["client"] = "registering"]
        /\ answer' = answer /\ faults' = faults /\ causes' = causes
    BY <1>2 DEF SendRegister
  <2> QED BY <1>0, <2>1, FaultsOfOneEnd
<1>3. CASE OnRecvNodeRegisterReq
  <2>1. /\ phase["server"] # "reset" /\ faults' = faults /\ causes' = causes
        /\ \/ /\ phase' = [phase EXCEPT !["server"] = "registered"]
              /\ \E a : answer' = [answer EXCEPT !["server"] = a]
           \/ phase' = phase /\ answer' = answer
    BY <1>3 DEF OnRecvNodeRegisterReq, Receives
  <2> QED BY <1>0, <2>1, FaultsOfOneEnd
<1>4. CASE OnRecvNodeRegisterRsp
  <2>1. /\ phase["client"] # "reset" /\ faults' = Cleared("client") /\ answer["client"] = Nothing
        /\ \/ /\ phase' \in {[phase EXCEPT !["client"] = "reset"], [phase EXCEPT !["client"] = "registered"]}
              /\ answer' = answer /\ causes' = causes
           \/ /\ phase' = phase
              /\ \E a : answer' = [answer EXCEPT !["client"] = a]
              /\ causes' \in {causes, causes \cup {"reload"}}
    BY <1>4 DEF OnRecvNodeRegisterRsp, Receives, ClientNegotiate
  <2> QED BY <1>0, <2>1, FaultsOfOneEnd
<1>5. CASE SendPing
  <2>1. /\ phase' = phase /\ faults' = faults /\ answer' = answer
        /\ causes' \in {causes, causes \cup {"overlap"}}
    BY <1>5 DEF SendPing
  <2> QED BY <2>1 DEF FaultsInv
<1>6. CASE PushPing
  BY <1>6 DEF PushPing, FaultsInv
<1>7. CASE OnRecvNodePing
  <2>1. /\ phase["server"] # "reset" /\ faults' = faults /\ causes' = causes /\ phase' = phase
        /\ \E a : answer' = [answer EXCEPT !["server"] = a]
    BY <1>7 DEF OnRecvNodePing, Receives
  <2> QED BY <1>0, <2>1, FaultsOfOneEnd
<1>8. CASE OnRecvNodePong
  <2>1. /\ phase["client"] # "reset" /\ faults' = Cleared("client") /\ phase' = phase
        /\ \/ answer' = answer /\ causes' = causes
           \/ /\ \E a : answer' = [answer EXCEPT !["client"] = a]
              /\ causes' \in {causes, causes \cup {"reload"}}
    BY <1>8 DEF OnRecvNodePong, Receives, ClientNegotiate
  <2> QED BY <1>0, <2>1, FaultsOfOneEnd DEF FaultsInv
<1>9. CASE OnRecvHandshakeConfirm
  <2>1. /\ phase["server"] # "reset" /\ faults' = Cleared("server") /\ phase' = phase
        /\ answer' = answer /\ causes' = causes
    BY <1>9 DEF OnRecvHandshakeConfirm, Receives
  <2> QED BY <1>0, <2>1, FaultsOfOneEnd
<1>10. ASSUME NEW e \in Ends, PushAnswer(e) PROVE FaultsInv'
  <2>1. /\ answer[e] # Nothing /\ answer' = [answer EXCEPT ![e] = Nothing]
        /\ faults' = Cleared(e) /\ causes' = causes
        /\ phase' \in {phase, [phase EXCEPT ![e] = "registered"]}
    BY <1>10 DEF PushAnswer
  <2> QED BY <1>0, <2>1, FaultsOfOneEnd
<1>11. ASSUME NEW e \in Ends, RefuseAnswer(e) PROVE FaultsInv'
  <2>1. /\ answer[e] # Nothing /\ answer' = [answer EXCEPT ![e] = Nothing]
        /\ causes' \in {causes, causes \cup {"refused"}}
    BY <1>11 DEF RefuseAnswer
  <2>2. answer[e].kind \in {"register_rsp", "pong", "confirm"} /\ phase[e] # "reset"
    BY <2>1 DEF Ends, Flow, Roles, FaultsInv
  <2>3. \/ phase' = [phase EXCEPT ![e] = "reset"] /\ faults' = faults
        \/ AddFault(e)
        \/ phase' = [phase EXCEPT ![e] = "registered"] /\ faults' = Cleared(e)
    BY <1>11, <2>2 DEF RefuseAnswer
  <2>4. answer'[e] = Nothing /\ \A f \in Ends : f # e => answer'[f] = answer[f]
    BY <1>0, <2>1
  <2>5. CASE AddFault(e)
    <3>1. /\ faults' \in [Ends -> 0..FaultTolerant]
          /\ \A f \in Ends : phase'[f] # "reset" => faults'[f] < FaultTolerant
          /\ \A f \in Ends : f # e => phase'[f] = phase[f]
      BY <1>0, <2>2, <2>5, FaultAdded
    <3> QED BY <1>0, <2>1, <2>4, <3>1 DEF FaultsInv
  <2>6. CASE phase' = [phase EXCEPT ![e] = "reset"] /\ faults' = faults
    BY <1>0, <2>1, <2>2, <2>4, <2>6, FaultsOfOneEnd
  <2>7. CASE phase' = [phase EXCEPT ![e] = "registered"] /\ faults' = Cleared(e)
    BY <1>0, <2>1, <2>2, <2>4, <2>7, FaultsOfOneEnd
  <2> QED BY <2>3, <2>5, <2>6, <2>7
<1>12. ASSUME NEW e \in Ends, PackData(e) \/ ReloadCrypto(e) PROVE FaultsInv'
  BY <1>12 DEF PackData, ReloadCrypto, FaultsInv
<1>13. ASSUME NEW e \in Ends, PushData(e) PROVE FaultsInv'
  <2>1. phase' = phase /\ answer' = answer /\ faults' = faults
        /\ causes' \subseteq causes \cup {"stale", "window"}
    BY <1>13 DEF PushData
  <2> QED BY <1>0, <2>1 DEF FaultsInv
<1>14. ASSUME NEW e \in Ends, OnRecvData(e) PROVE FaultsInv'
  <2>1. /\ phase[e] # "reset" /\ answer[e] = Nothing /\ answer' = answer /\ causes' = causes
        /\ \/ faults' = Cleared(e) /\ phase' = phase
           \/ AddFault(e)
    BY <1>14 DEF OnRecvData, Receives
  <2>2. CASE AddFault(e)
    <3>1. /\ faults' \in [Ends -> 0..FaultTolerant]
          /\ \A f \in Ends : phase'[f] # "reset" => faults'[f] < FaultTolerant
          /\ \A f \in Ends : f # e => phase'[f] = phase[f]
      BY <1>0, <2>1, <2>2, FaultAdded
    <3> QED BY <1>0, <2>1, <3>1 DEF FaultsInv
  <2>3. CASE faults' = Cleared(e) /\ phase' = phase
    BY <1>0, <2>1, <2>3, FaultsOfOneEnd
  <2> QED BY <2>1, <2>2, <2>3
<1> QED BY <1>1, <1>2, <1>3, <1>4, <1>5, <1>6, <1>7, <1>8, <1>9, <1>10, <1>11, <1>12, <1>13, <1>14 DEF Next

----------------------------------------------------------------------------
(* Algorithms and key pairs within their numbers.                          *)

\* A set of numbers that is not empty has a least one.
LEMMA LeastAlgorithm ==
  ASSUME NEW s \in SUBSET Algs, s # {}
  PROVE  \E a \in s : \A b \in s : a <= b
<1>1. s \subseteq Nat
  BY CipherAssumption DEF Algs
<1>2. PICK a \in s : \A b \in s : <<b, a>> \notin OpToRel(<, Nat)
  BY <1>1, NatLessThanWellFounded, WFMin
<1>3. \A b \in s : ~(b < a)
  BY <1>1, <1>2 DEF OpToRel
<1> QED BY <1>1, <1>3

\* NegotiateCryptoAlgorithm selects one of the allowed algorithms, or none.
LEMMA NegotiateInRange ==
  ASSUME NEW local \in SUBSET Algs, NEW remote
  PROVE  NegotiateCryptoAlgorithm(local, remote) \in Algs \cup {NoneAlg}
<1>1. PICK s \in SUBSET Algs : s = local \cap remote
  OBVIOUS
<1>2. s # {} => (CHOOSE a \in s : \A b \in s : a <= b) \in s
  BY LeastAlgorithm
<1> QED BY <1>1, <1>2 DEF NegotiateCryptoAlgorithm

\* A context whose ciphers and key pair are in range, and that has staged
\* nothing unless a confirmation is pending.
SmallContext(c) ==
    /\ c \in AnyContext
    /\ c.read \in Ciphers /\ c.write \in Ciphers /\ c.staged \in Ciphers
    /\ c.staged # Plain => c.pending
    /\ c.self \in KeyPairs

\* The messages whose algorithms, key pair and cipher are in range. A request
\* carries a key pair of the client.
SmallHandshake(hs) == hs \in AnyHandshake /\ hs.algs \subseteq Algs /\ hs.pub \in KeyPairs
SmallMessages ==
    {m \in AnyMessage :
        /\ SmallHandshake(m.hs) /\ m.cipher \in Ciphers
        /\ m.kind \in {"register", "ping"} => m.hs.pub <= MaxKeys}

\* The constants are in range.
LEMMA SmallConstants ==
  /\ Plain \in Ciphers /\ PresetCipher \in Ciphers
  /\ 0 \in KeyPairs /\ 1 \in KeyPairs /\ SmallHandshake(NoHandshake)
  /\ MaxKeys \in Nat /\ 0 < MaxKeys
  /\ \A k \in Nat : k <= MaxKeys => k \in KeyPairs /\ MaxKeys + k \in KeyPairs
  /\ KeyPairs \subseteq Nat /\ Algs \subseteq AnyAlg
<1>1. /\ MaxKeys \in Nat /\ 0 < MaxKeys /\ 0 \in KeyPairs /\ 1 \in KeyPairs /\ KeyPairs \subseteq Nat
      /\ \A k \in Nat : k <= MaxKeys => k \in KeyPairs /\ MaxKeys + k \in KeyPairs
  BY CipherAssumption DEF KeyPairs
<1>2. 1 \in Algs /\ Algs \subseteq AnyAlg
  BY CipherAssumption DEF Algs, AnyAlg
<1>3. SmallHandshake(NoHandshake)
  BY <1>1, ConstantFacts DEF SmallHandshake, NoHandshake
<1>4. Plain \in Ciphers /\ PresetCipher \in Ciphers
  BY <1>1, <1>2 DEF Ciphers, PresetCipher
<1> QED BY <1>1, <1>2, <1>3, <1>4

\* A message without handshake data is in range with its cipher.
LEMMA SilentSmall ==
  ASSUME NEW cipher \in Ciphers, cipher \in AnyCipher, NEW ok \in BOOLEAN, NEW kind \in Kinds
  PROVE  Message(kind, NoHandshake, ok, cipher) \in SmallMessages
<1> DEFINE m == Message(kind, NoHandshake, ok, cipher)
<1>1. m \in AnyMessage /\ m.hs = NoHandshake /\ m.cipher = cipher
  BY ConstantFacts DEF Message, AnyMessage
<1>2. NoHandshake.pub = 0
  BY DEF NoHandshake
<1> HIDE DEF m
<1>3. m \in SmallMessages
  BY <1>1, <1>2, SmallConstants DEF SmallMessages
<1> QED BY <1>3 DEF m

\* And so is one with handshake data that is.
LEMMA MessageSmall ==
  ASSUME NEW hs, SmallHandshake(hs), NEW kind \in Kinds, NEW ok \in BOOLEAN,
         kind \in {"register", "ping"} => hs.pub <= MaxKeys
  PROVE  Message(kind, hs, ok, Plain) \in SmallMessages
<1> DEFINE m == Message(kind, hs, ok, Plain)
<1>1. m \in AnyMessage /\ m.hs = hs /\ m.cipher = Plain /\ m.kind = kind
  BY ConstantFacts DEF Message, AnyMessage, SmallHandshake
<1> HIDE DEF m
<1>2. m \in SmallMessages
  BY <1>1, SmallConstants DEF SmallMessages
<1> QED BY <1>2 DEF m

\* A derived cipher is in range when the two key pairs are.
LEMMA DerivedSmall ==
  ASSUME NEW c, SmallContext(c), NEW hs, SmallHandshake(hs), NEW allowed \in SUBSET Algs
  PROVE  DerivedCipher(c, hs, allowed) \in Ciphers
<1>1. NegotiateCryptoAlgorithm(allowed, hs.algs) \in Algs \cup {NoneAlg}
  BY NegotiateInRange
<1>2. {c.self, hs.pub} \in SUBSET KeyPairs
  BY DEF SmallContext, SmallHandshake
<1> QED BY <1>1, <1>2 DEF DerivedCipher, Ciphers

\* HandshakeGenerateSelfKey keeps a context in range, when its key pair is.
LEMMA GenerateSmall ==
  ASSUME NEW c, SmallContext(c), NEW peerSeq \in Nat, NEW pair \in KeyPairs,
         NEW made, made = HandshakeGenerateSelfKey(c, peerSeq, pair)
  PROVE  /\ SmallContext(made) /\ made.kx = c.kx
         /\ made.seq = IF peerSeq = 0 THEN c.seq + 1 ELSE c.seq
         /\ made.hsSeq = IF peerSeq = 0 THEN c.seq + 1 ELSE peerSeq
         /\ made.self = IF c.kx # NoKx THEN pair ELSE c.self
<1>1. c \in AnyContext /\ pair \in Nat
  BY SmallConstants DEF SmallContext
<1>2. /\ made \in AnyContext /\ made.pending = c.pending /\ made.kx = c.kx
      /\ made.seq = IF peerSeq = 0 THEN c.seq + 1 ELSE c.seq
      /\ made.hsSeq = IF peerSeq = 0 THEN c.seq + 1 ELSE peerSeq
      /\ made.self = IF c.kx # NoKx THEN pair ELSE c.self
  BY <1>1, GenerateFacts, ZenonT(60)
<1>3. made.read = c.read /\ made.write = c.write /\ made.staged = c.staged
  BY <1>1, GenerateCiphers
<1>4. SmallContext(made)
  BY <1>2, <1>3 DEF SmallContext
<1> QED BY <1>2, <1>4

\* So does HandshakeReadPeerKey, which changes neither key pair nor sequence.
LEMMA ReadSmall ==
  ASSUME NEW c, SmallContext(c), NEW hs, SmallHandshake(hs), NEW allowed \in SUBSET Algs,
         NEW after, after \in {HandshakeReadPeerKey(c, hs, allowed, TRUE),
                               HandshakeReadPeerKey(c, hs, allowed, FALSE)}
  PROVE  /\ SmallContext(after) /\ after.kx = c.kx
         /\ after.self = c.self /\ after.hsSeq = c.hsSeq /\ after.seq = c.seq
<1>1. PICK w : w = DerivedCipher(c, hs, allowed)
  OBVIOUS
<1>2. c \in AnyContext /\ hs \in AnyHandshake
  BY DEF SmallContext, SmallHandshake
<1>3. w \in Ciphers /\ w \in AnyCipher
  BY <1>1, <1>2, DerivedSmall, DerivedFacts
<1>4. \/ after = c
      \/ after = [c EXCEPT !.write = w, !.staged = w, !.pending = TRUE]
      \/ after = [c EXCEPT !.write = w, !.read = w]
  BY <1>1 DEF HandshakeReadPeerKey
<1>5. CASE after = c
  BY <1>5
<1>6. CASE after = [c EXCEPT !.write = w, !.staged = w, !.pending = TRUE]
  <2>1. /\ after \in AnyContext /\ after.read = c.read /\ after.write = w /\ after.staged = w
        /\ after.pending = TRUE /\ after.self = c.self /\ after.hsSeq = c.hsSeq
        /\ after.seq = c.seq /\ after.kx = c.kx
    BY <1>2, <1>3, <1>6 DEF AnyContext
  <2> QED BY <1>3, <2>1 DEF SmallContext
<1>7. CASE after = [c EXCEPT !.write = w, !.read = w]
  <2>1. /\ after \in AnyContext /\ after.read = w /\ after.write = w /\ after.staged = c.staged
        /\ after.pending = c.pending /\ after.self = c.self /\ after.hsSeq = c.hsSeq
        /\ after.seq = c.seq /\ after.kx = c.kx
    BY <1>2, <1>3, <1>7 DEF AnyContext
  <2> QED BY <1>3, <2>1 DEF SmallContext
<1> QED BY <1>4, <1>5, <1>6, <1>7

\* ConfirmHandshake promotes and clears what is staged.
LEMMA ConfirmSmall ==
  ASSUME NEW c, SmallContext(c), NEW seq, NEW after, after = ConfirmHandshake(c, seq)
  PROVE  SmallContext(after) /\ after.seq = c.seq /\ after.hsSeq = c.hsSeq
<1>1. c \in AnyContext
  BY DEF SmallContext
<1>2. CASE after = c
  BY <1>2
<1>3. CASE after # c
  <2>1. after = [c EXCEPT !.read = c.staged, !.staged = Plain, !.pending = FALSE]
    BY <1>3 DEF ConfirmHandshake
  <2>2. /\ after \in AnyContext /\ after.read = c.staged /\ after.write = c.write
        /\ after.staged = Plain /\ after.self = c.self /\ after.hsSeq = c.hsSeq
        /\ after.seq = c.seq
    BY <1>1, <2>1, ConstantFacts DEF AnyContext
  <2> QED BY <2>2, SmallConstants DEF SmallContext
<1> QED BY <1>2, <1>3

\* GetNextSequence changes nothing but the sequence.
LEMMA NextSequenceSmall ==
  ASSUME NEW c, SmallContext(c), NEW after, after = GetNextSequence(c)
  PROVE  /\ SmallContext(after) /\ after.kx = c.kx
         /\ after.self = c.self /\ after.hsSeq = c.hsSeq /\ after.seq = c.seq + 1
<1>1. c \in AnyContext
  BY DEF SmallContext
<1>2. /\ after \in AnyContext /\ after.read = c.read /\ after.write = c.write
      /\ after.staged = c.staged /\ after.pending = c.pending /\ after.self = c.self
      /\ after.hsSeq = c.hsSeq /\ after.seq = c.seq + 1 /\ after.kx = c.kx
  BY <1>1 DEF GetNextSequence, AnyContext
<1> QED BY <1>2 DEF SmallContext

\* What HandshakeWriteSelfPublicKey sends of a context in range is in range.
LEMMA WriteSmall ==
  ASSUME NEW c, SmallContext(c), NEW algs \in SUBSET Algs,
         NEW hs, hs = HandshakeWriteSelfPublicKey(c, algs)
  PROVE  SmallHandshake(hs) /\ hs.pub = c.self
<1>1. c \in AnyContext /\ algs \in SUBSET AnyAlg
  BY SmallConstants DEF SmallContext
<1>2. hs \in AnyHandshake
  BY <1>1, WriteFacts
<1>3. CASE c.self = 0
  <2>1. hs = NoHandshake /\ hs.pub = 0
    BY <1>3 DEF HandshakeWriteSelfPublicKey, NoHandshake
  <2> QED BY <1>3, <2>1, SmallConstants
<1>4. CASE c.self # 0
  <2>1. hs.algs = algs /\ hs.pub = c.self
    BY <1>4 DEF HandshakeWriteSelfPublicKey
  <2> QED BY <1>2, <2>1 DEF SmallHandshake, SmallContext
<1> QED BY <1>3, <1>4

\* The algorithm the server sends back is one of the numbered ones.
LEMMA SelectedSmall ==
  ASSUME NEW c, SmallContext(c)
  PROVE  Selected(c) \in SUBSET Algs
  BY DEF SmallContext, Selected, GetCryptoSelectAlgorithm, Ciphers, Plain

\* A server that has answered a request of the client is in range.
LEMMA ServerSmall ==
  ASSUME NEW c, SmallContext(c), NEW hs, SmallHandshake(hs), hs.seq # 0, hs.pub <= MaxKeys,
         allow["server"] \in SUBSET Algs, NEW after, after = ServerNegotiate(c, hs)
  PROVE  SmallContext(after) /\ after.seq = c.seq /\ after.hsSeq = hs.seq /\ after.kx = c.kx
<1>1. PICK made : made = HandshakeGenerateSelfKey(c, hs.seq, MaxKeys + hs.pub)
  OBVIOUS
<1>2. hs.seq \in Nat /\ hs.pub \in Nat /\ MaxKeys + hs.pub \in KeyPairs
  BY SmallConstants DEF SmallHandshake, AnyHandshake
<1>3. SmallContext(made) /\ made.seq = c.seq /\ made.hsSeq = hs.seq /\ made.kx = c.kx
  <2> DEFINE q == hs.seq
             p == MaxKeys + hs.pub
  <2>1. q \in Nat /\ p \in KeyPairs /\ made = HandshakeGenerateSelfKey(c, q, p) /\ q # 0
    BY <1>1, <1>2
  <2> HIDE DEF q, p
  <2>2. SmallContext(made) /\ made.seq = c.seq /\ made.hsSeq = q /\ made.kx = c.kx
    BY <2>1, GenerateSmall
  <2> QED BY <2>2 DEF q
<1>4. PICK allowed \in SUBSET Algs : allowed = allow["server"]
  OBVIOUS
<1>5. after \in {made, HandshakeReadPeerKey(made, hs, allowed, TRUE)}
  BY <1>1, <1>4 DEF ServerNegotiate
<1>6. CASE after = made
  BY <1>3, <1>6
<1>7. CASE after = HandshakeReadPeerKey(made, hs, allowed, TRUE)
  <2>1. SmallContext(made) /\ SmallHandshake(hs) /\ allowed \in SUBSET Algs
    BY <1>3
  <2>2. /\ SmallContext(after) /\ after.kx = made.kx /\ after.hsSeq = made.hsSeq
        /\ after.seq = made.seq
    BY ONLY <1>7, <2>1, ReadSmall
  <2> QED BY <1>3, <2>2
<1> QED BY <1>5, <1>6, <1>7

----------------------------------------------------------------------------
(* Every step keeps contexts and messages in range.                        *)

\* The contexts are in range. Only the client takes sequences of its own, and
\* neither end is ahead of them.
SmallContexts ==
    /\ SmallContext(Client) /\ SmallContext(Server)
    /\ Client.self <= MaxKeys /\ Client.hsSeq <= Client.seq
    /\ Server.seq = 0 /\ Server.hsSeq <= Client.seq
    /\ used.keys <= MaxKeys

SmallLinks ==
    /\ link \in [Ends -> Seq(SmallMessages)] /\ answer \in [Ends -> SmallMessages]
    /\ ping \in SmallMessages /\ packed \in [Ends -> SmallMessages]

\* No message is ahead of the client's sequence.
Upto(n) == {m \in AnyMessage : m.hs.seq <= n}
NoneAhead ==
    /\ link \in [Ends -> Seq(Upto(Client.seq))] /\ answer \in [Ends -> Upto(Client.seq)]
    /\ ping \in Upto(Client.seq) /\ packed \in [Ends -> Upto(Client.seq)]

\* SessionInv says so.
LEMMA SessionNoneAhead ==
  ASSUME SessionInv
  PROVE  NoneAhead
<1>1. PICK num : Numbered(num)
  BY DEF SessionInv
<1> DEFINE G == Agreed(num)
           H == Upto(Client.seq)
<1>2. Client.seq \in Nat
  BY SessionTypes, PartTypes DEF AnyContext
<1>3. G \subseteq H
  BY <1>2 DEF Agreed, Agreeing, Upto, Client, AnyMessage, AnyHandshake
<1>4. /\ link \in [Ends -> Seq(G)] /\ answer \in [Ends -> G] /\ ping \in G
      /\ packed \in [Ends -> G]
  BY <1>1 DEF Numbered, MessagesOK
<1> HIDE DEF G, H
<1>5. [Ends -> Seq(G)] \subseteq [Ends -> Seq(H)] /\ [Ends -> G] \subseteq [Ends -> H]
  BY <1>3, MessagesGrow
<1>6. /\ link \in [Ends -> Seq(H)] /\ answer \in [Ends -> H] /\ ping \in H /\ packed \in [Ends -> H]
  BY <1>3, <1>4, <1>5
<1> QED BY <1>6 DEF NoneAhead, H

\* Nothing and the two denials are in range.
LEMMA SmallKinds ==
  /\ Nothing \in SmallMessages
  /\ Message("register_rsp", NoHandshake, FALSE, Plain) \in SmallMessages
<1>1. "nothing" \in Kinds /\ "register_rsp" \in Kinds /\ TRUE \in BOOLEAN /\ FALSE \in BOOLEAN
  BY DEF Kinds
<1> QED BY <1>1, SilentSmall, SmallConstants, ConstantFacts DEF Nothing

\* The steps that leave the contexts alone.
LEMMA StillSmall ==
  ASSUME TypesOK, SmallContexts, SmallLinks, NEW e \in Ends,
         \/ PushPing \/ PushAnswer(e) \/ RefuseAnswer(e) \/ PackData(e) \/ PushData(e)
         \/ OnRecvData(e) \/ ReloadCrypto(e) \/ UNCHANGED vars
  PROVE  SmallContexts' /\ SmallLinks'
<1>1. ctx' = ctx /\ used'.keys = used.keys
  BY DEF TypesOK, PushPing, PushAnswer, RefuseAnswer, PackData, PushData, OnRecvData, ReloadCrypto, vars
<1>2. SmallContexts'
  BY <1>1 DEF SmallContexts, Client, Server
<1>3. Peer(e) \in Ends /\ Nothing \in SmallMessages
  BY EndsFacts, SmallKinds
<1>4. /\ link \in [Ends -> Seq(SmallMessages)] /\ answer \in [Ends -> SmallMessages]
      /\ ping \in SmallMessages /\ packed \in [Ends -> SmallMessages]
  BY DEF SmallLinks
<1>5. CASE UNCHANGED vars \/ ReloadCrypto(e)
  BY <1>2, <1>5 DEF vars, ReloadCrypto, SmallLinks
<1>6. CASE PushPing
  <2>1. /\ link' \in {link, PushedTo("server", ping)} /\ ping' = Nothing
        /\ answer' = answer /\ packed' = packed
    BY <1>6 DEF PushPing
  <2>2. PushedTo("server", ping) \in [Ends -> Seq(SmallMessages)]
    BY <1>4, PushFacts, EndsFacts
  <2> QED BY <1>2, <1>3, <1>4, <2>1, <2>2 DEF SmallLinks
<1>7. CASE PushAnswer(e)
  <2>1. /\ link' = PushedTo(Peer(e), answer[e]) /\ answer' = [answer EXCEPT ![e] = Nothing]
        /\ ping' = ping /\ packed' = packed
    BY <1>7 DEF PushAnswer
  <2>2. PushedTo(Peer(e), answer[e]) \in [Ends -> Seq(SmallMessages)]
    BY <1>3, <1>4, PushFacts
  <2> QED BY <1>2, <1>3, <1>4, <2>1, <2>2 DEF SmallLinks
<1>8. CASE RefuseAnswer(e)
  <2>1. link' = link /\ answer' = [answer EXCEPT ![e] = Nothing] /\ ping' = ping /\ packed' = packed
    BY <1>8 DEF RefuseAnswer
  <2> QED BY <1>2, <1>3, <1>4, <2>1 DEF SmallLinks
<1>9. CASE PackData(e)
  <2>1. /\ link' = link /\ answer' = answer /\ ping' = ping
        /\ packed' = [packed EXCEPT ![e] = Message("data", NoHandshake, TRUE, ctx[e].write)]
    BY <1>9 DEF PackData, PackMessage, Data
  <2>2. ctx[e].write \in Ciphers /\ ctx[e].write \in AnyCipher
    BY DEF SmallContexts, SmallContext, AnyContext, Ends, Client, Server
  <2>3. "data" \in Kinds /\ TRUE \in BOOLEAN
    BY DEF Kinds
  <2>4. Message("data", NoHandshake, TRUE, ctx[e].write) \in SmallMessages
    BY <2>2, <2>3, SilentSmall
  <2> QED BY <1>2, <1>4, <2>1, <2>4 DEF SmallLinks
<1>10. CASE PushData(e)
  <2>1. /\ link' = PushedTo(Peer(e), packed[e]) /\ packed' = [packed EXCEPT ![e] = Nothing]
        /\ ping' = ping /\ answer' = answer
    BY <1>10 DEF PushData
  <2>2. PushedTo(Peer(e), packed[e]) \in [Ends -> Seq(SmallMessages)]
    BY <1>3, <1>4, PushFacts
  <2> QED BY <1>2, <1>3, <1>4, <2>1, <2>2 DEF SmallLinks
<1>11. CASE OnRecvData(e)
  <2>1. link' = Popped(e) /\ Receives(e, "data") /\ ping' = ping /\ answer' = answer /\ packed' = packed
    BY <1>11 DEF OnRecvData
  <2>2. Popped(e) \in [Ends -> Seq(SmallMessages)]
    BY <1>4, <2>1, PopFacts
  <2> QED BY <1>2, <1>4, <2>1, <2>2 DEF SmallLinks
<1> QED BY <1>5, <1>6, <1>7, <1>8, <1>9, <1>10, <1>11

\* The client's new key pair: what SendRegister and SendPing do to the context
\* and what they send.
FreshKey(c, pair) == HandshakeGenerateSelfKey(c, 0, pair)

\* Both are in range.
LEMMA ClientStartSmall ==
  ASSUME NEW c, SmallContext(c), NEW pair \in Nat, pair <= MaxKeys, c.self <= MaxKeys,
         NEW allowed \in SUBSET Algs, NEW made, made = FreshKey(c, pair),
         NEW hs, hs \in {NoHandshake, HandshakeWriteSelfPublicKey(made, allowed)},
         NEW kind \in {"register", "ping"}
  PROVE  /\ SmallContext(made) /\ made.self <= MaxKeys
         /\ made.seq = c.seq + 1 /\ made.hsSeq = c.seq + 1
         /\ Message(kind, hs, TRUE, Plain) \in SmallMessages
<1>1. pair \in KeyPairs
  BY SmallConstants
<1>2. PICK zero \in Nat : zero = 0
  OBVIOUS
<1>3. /\ SmallContext(made)
      /\ made.seq = IF zero = 0 THEN c.seq + 1 ELSE c.seq
      /\ made.hsSeq = IF zero = 0 THEN c.seq + 1 ELSE zero
      /\ made.self = IF c.kx # NoKx THEN pair ELSE c.self
  <2>1. SmallContext(c) /\ made = HandshakeGenerateSelfKey(c, zero, pair)
    BY <1>2 DEF FreshKey
  <2> QED BY ONLY <1>1, <2>1, GenerateSmall
<1>4. /\ made.seq = c.seq + 1 /\ made.hsSeq = c.seq + 1
      /\ made.self = IF c.kx # NoKx THEN pair ELSE c.self
  BY <1>2, <1>3
<1>5. made.self <= MaxKeys
  BY <1>4
<1>6. SmallHandshake(hs) /\ hs.pub <= MaxKeys
  <2>1. CASE hs = NoHandshake
    BY <2>1, SmallConstants DEF NoHandshake
  <2>2. CASE hs = HandshakeWriteSelfPublicKey(made, allowed)
    BY <1>3, <1>5, <2>2, WriteSmall
  <2> QED BY <2>1, <2>2
<1>7. kind \in Kinds /\ TRUE \in BOOLEAN
  BY DEF Kinds
<1>8. Message(kind, hs, TRUE, Plain) \in SmallMessages
  BY <1>6, <1>7, MessageSmall
<1> QED BY <1>3, <1>4, <1>5, <1>8

\* SendRegister and SendPing keep everything in range.
LEMMA StartSmall ==
  ASSUME TypesOK, SmallContexts, SmallLinks, SendRegister \/ SendPing
  PROVE  SmallContexts' /\ SmallLinks'
<1>1. /\ ctx \in [Ends -> AnyContext] /\ "client" \in Ends /\ "server" \in Ends
      /\ used \in [keys : Nat, data : Nat, refused : Nat, reloads : Nat]
      /\ allow["client"] \in SUBSET Algs /\ Client \in AnyContext /\ Server \in AnyContext
  BY EndsFacts, PartTypes DEF TypesOK
<1>2. /\ link \in [Ends -> Seq(SmallMessages)] /\ answer \in [Ends -> SmallMessages]
      /\ ping \in SmallMessages /\ packed \in [Ends -> SmallMessages]
  BY DEF SmallLinks
<1>3. PICK allowed \in SUBSET Algs : allowed = allow["client"]
  BY <1>1
<1>4. PICK keys \in Nat : keys = used.keys
  BY <1>1
<1>5. PICK made : made = HandshakeGenerateSelfKey(Client, 0, keys + 1)
  OBVIOUS
<1>6. /\ SmallContext(Client) /\ Client.self <= MaxKeys /\ Client.hsSeq <= Client.seq
      /\ Server.hsSeq <= Client.seq /\ Server.seq = 0 /\ SmallContext(Server) /\ keys <= MaxKeys
      /\ Client.seq \in Nat /\ Server.hsSeq \in Nat
  BY <1>1, <1>4 DEF SmallContexts, AnyContext
<1>7. ASSUME NEW hs \in {NoHandshake, HandshakeWriteSelfPublicKey(made, allowed)},
             NEW kind \in {"register", "ping"}, keys < MaxKeys,
             ctx' = [ctx EXCEPT !["client"] = made], used' = [used EXCEPT !.keys = @ + 1]
      PROVE  SmallContexts' /\ Message(kind, hs, TRUE, Plain) \in SmallMessages
  <2>1. PICK c : c = Client
    OBVIOUS
  <2>2. PICK pair \in Nat : pair = keys + 1
    BY <1>4
  <2>3. SmallContext(c) /\ c.self <= MaxKeys /\ made = FreshKey(c, pair)
    BY <1>5, <1>6, <2>1, <2>2 DEF FreshKey
  <2>4. /\ pair <= MaxKeys /\ hs \in {NoHandshake, HandshakeWriteSelfPublicKey(made, allowed)}
         /\ kind \in {"register", "ping"}
    BY <1>7, <2>2, SmallConstants
  <2>5. /\ SmallContext(made) /\ made.self <= MaxKeys
        /\ made.seq = c.seq + 1 /\ made.hsSeq = c.seq + 1
        /\ Message(kind, hs, TRUE, Plain) \in SmallMessages
    BY ONLY <2>3, <2>4, ClientStartSmall
  <2>6. Client' = made /\ Server' = Server /\ used'.keys = keys + 1
    BY <1>1, <1>4, <1>7 DEF Client, Server
  <2>7. keys + 1 <= MaxKeys
    BY <1>7, SmallConstants
  <2>8. made.hsSeq <= made.seq /\ Server.hsSeq <= made.seq
    BY <1>6, <2>1, <2>5
  <2>9. SmallContexts'
    BY <1>6, <2>5, <2>6, <2>7, <2>8 DEF SmallContexts
  <2> QED BY <2>5, <2>9
<1>8. CASE SendPing
  <2>1. PICK hs \in {NoHandshake, HandshakeWriteSelfPublicKey(made, allowed)} :
          ping' = Message("ping", hs, TRUE, Plain)
    BY <1>3, <1>4, <1>5, <1>8 DEF SendPing, Client
  <2>2. /\ keys < MaxKeys /\ ctx' = [ctx EXCEPT !["client"] = made]
        /\ used' = [used EXCEPT !.keys = @ + 1]
        /\ link' = link /\ answer' = answer /\ packed' = packed
    BY <1>4, <1>5, <1>8 DEF SendPing, Client
  <2>3. SmallContexts' /\ ping' \in SmallMessages
    BY <1>7, <2>1, <2>2
  <2> QED BY <1>2, <2>2, <2>3 DEF SmallLinks
<1>9. CASE SendRegister
  <2>1. PICK hs \in {NoHandshake, HandshakeWriteSelfPublicKey(made, allowed)} :
          /\ link' = PushedTo("server", Message("register", hs, TRUE, Plain))
          /\ \/ hs = NoHandshake /\ ctx' = ctx /\ used' = used
             \/ /\ keys < MaxKeys /\ ctx' = [ctx EXCEPT !["client"] = made]
                /\ used' = [used EXCEPT !.keys = @ + 1]
    BY <1>3, <1>4, <1>5, <1>9 DEF SendRegister, Client
  <2>2. answer' = answer /\ packed' = packed /\ ping' = ping
    BY <1>9 DEF SendRegister
  <2>3. SmallContexts' /\ Message("register", hs, TRUE, Plain) \in SmallMessages
    <3>1. CASE hs = NoHandshake /\ ctx' = ctx /\ used' = used
      <4>1. SmallContexts'
        BY <3>1 DEF SmallContexts, Client, Server
      <4>2. "register" \in Kinds /\ TRUE \in BOOLEAN
        BY DEF Kinds
      <4>3. Message("register", hs, TRUE, Plain) \in SmallMessages
        BY <3>1, <4>2, SilentSmall, SmallConstants, ConstantFacts
      <4> QED BY <4>1, <4>3
    <3>2. CASE /\ keys < MaxKeys /\ ctx' = [ctx EXCEPT !["client"] = made]
               /\ used' = [used EXCEPT !.keys = @ + 1]
      BY <1>7, <3>2
    <3> QED BY <2>1, <3>1, <3>2
  <2>4. link' \in [Ends -> Seq(SmallMessages)]
    BY <1>1, <1>2, <2>1, <2>3, PushFacts
  <2> QED BY <1>2, <2>2, <2>3, <2>4 DEF SmallLinks
<1> QED BY <1>8, <1>9

\* What a handler of the server does with a message m in range: its context
\* becomes t, and its answer says h.
ServerTakes(c, m, t, h) ==
    /\ t \in {c, ServerNegotiate(c, m.hs)}
    /\ t # c => m.hs.seq # 0
    /\ h \in {NoHandshake, HandshakeWriteSelfPublicKey(t, Selected(t))}

\* Both are in range.
LEMMA ServerTakesSmall ==
  ASSUME NEW c, SmallContext(c), NEW m \in SmallMessages, m.kind \in {"register", "ping"},
         allow["server"] \in SUBSET Algs, NEW t, NEW h, ServerTakes(c, m, t, h)
  PROVE  /\ SmallContext(t) /\ t.seq = c.seq /\ t.hsSeq \in {c.hsSeq, m.hs.seq}
         /\ SmallHandshake(h)
<1>1. SmallContext(t) /\ t.seq = c.seq /\ t.hsSeq \in {c.hsSeq, m.hs.seq}
  <2>1. CASE t = c
    BY <2>1
  <2>2. CASE t # c
    <3>1. PICK hs : hs = m.hs
      OBVIOUS
    <3>2. SmallHandshake(hs) /\ hs.seq # 0 /\ hs.pub <= MaxKeys /\ t = ServerNegotiate(c, hs)
      BY <2>2, <3>1 DEF SmallMessages, ServerTakes
    <3>3. SmallContext(t) /\ t.seq = c.seq /\ t.hsSeq = hs.seq
      BY <3>2, ServerSmall
    <3> QED BY <3>1, <3>3
  <2> QED BY <2>1, <2>2
<1>2. CASE h = NoHandshake
  BY <1>1, <1>2, SmallConstants
<1>3. CASE h = HandshakeWriteSelfPublicKey(t, Selected(t))
  <2>1. PICK algs : algs = Selected(t)
    OBVIOUS
  <2>2. algs \in SUBSET Algs /\ h = HandshakeWriteSelfPublicKey(t, algs)
    BY <1>1, <1>3, <2>1, SelectedSmall
  <2>3. SmallHandshake(h)
    BY <1>1, <2>2, WriteSmall
  <2> QED BY <1>1, <2>3
<1> QED BY <1>2, <1>3 DEF ServerTakes

\* What OnRecvNodeRegisterReq and OnRecvNodePing do, as far as the ranges are
\* concerned.
LEMMA ServerReadShape ==
  ASSUME TypesOK, OnRecvNodeRegisterReq \/ OnRecvNodePing
  PROVE  \E t, h : \E kind \in {"register_rsp", "pong"} :
           /\ ServerTakes(Server, Head(ToServer), t, h)
           /\ ctx' = [ctx EXCEPT !["server"] = t]
           /\ \/ /\ link' = Popped("server")
                 /\ answer' = [answer EXCEPT !["server"] = Message(kind, h, TRUE, Plain)]
              \/ /\ link' = [Popped("server") EXCEPT !["client"] =
                               @ \o <<Message("register_rsp", NoHandshake, FALSE, Plain),
                                      Message("register_rsp", NoHandshake, FALSE, Plain)>>]
                 /\ answer' = answer
<1> DEFINE m == Head(link["server"])
           c == ctx["server"]
<1>1. CASE OnRecvNodeRegisterReq
  <2>1. PICK token \in BOOLEAN, accepted \in BOOLEAN :
          LET negotiates == token /\ CarriesHandshake(m)
              after == IF negotiates THEN ServerNegotiate(c, m.hs) ELSE c
              hs == IF GetCryptoKeyExchangeAlgorithm(after) # NoKx
                    THEN HandshakeWriteSelfPublicKey(after, Selected(after))
                    ELSE NoHandshake
              denial == Message("register_rsp", NoHandshake, FALSE, Plain)
          IN  /\ ctx' = [ctx EXCEPT !["server"] = after]
              /\ IF token /\ accepted /\ (negotiates => ServerAccepts(c, m.hs))
                 THEN /\ phase' = [phase EXCEPT !["server"] = "registered"]
                      /\ answer' = [answer EXCEPT !["server"] =
                                      Message("register_rsp", hs, TRUE, Plain)]
                      /\ link' = Popped("server")
                 ELSE /\ link' = [Popped("server") EXCEPT !["client"] = @ \o <<denial, denial>>]
                      /\ UNCHANGED <<phase, answer>>
    BY <1>1 DEF OnRecvNodeRegisterReq
  <2> DEFINE negotiates == token /\ CarriesHandshake(m)
             t == IF negotiates THEN ServerNegotiate(c, m.hs) ELSE c
             h == IF GetCryptoKeyExchangeAlgorithm(t) # NoKx
                  THEN HandshakeWriteSelfPublicKey(t, Selected(t)) ELSE NoHandshake
  <2>2. ServerTakes(Server, Head(ToServer), t, h)
    BY DEF ServerTakes, CarriesHandshake, Server, ToServer
  <2>3. /\ ctx' = [ctx EXCEPT !["server"] = t]
        /\ \/ /\ link' = Popped("server")
              /\ answer' = [answer EXCEPT !["server"] = Message("register_rsp", h, TRUE, Plain)]
           \/ /\ link' = [Popped("server") EXCEPT !["client"] =
                            @ \o <<Message("register_rsp", NoHandshake, FALSE, Plain),
                                   Message("register_rsp", NoHandshake, FALSE, Plain)>>]
              /\ answer' = answer
    BY <2>1
  <2> HIDE DEF t, h
  <2> QED BY <2>2, <2>3
<1>2. CASE OnRecvNodePing
  <2> DEFINE negotiates == CarriesHandshake(m) /\ phase["server"] = "registered"
             t == IF negotiates THEN ServerNegotiate(c, m.hs) ELSE c
             h == IF negotiates /\ ServerAccepts(c, m.hs)
                  THEN HandshakeWriteSelfPublicKey(t, Selected(t)) ELSE NoHandshake
  <2>1. ServerTakes(Server, Head(ToServer), t, h)
    BY DEF ServerTakes, CarriesHandshake, Server, ToServer
  <2>2. /\ ctx' = [ctx EXCEPT !["server"] = t] /\ link' = Popped("server")
        /\ answer' = [answer EXCEPT !["server"] = Message("pong", h, TRUE, Plain)]
    BY <1>2 DEF OnRecvNodePing
  <2> HIDE DEF t, h
  <2> QED BY <2>1, <2>2
<1> QED BY <1>1, <1>2

\* The server's handlers keep everything in range.
LEMMA ServerReadSmall ==
  ASSUME TypesOK, NoneAhead, SmallContexts, SmallLinks,
         OnRecvNodeRegisterReq \/ OnRecvNodePing \/ OnRecvHandshakeConfirm
  PROVE  SmallContexts' /\ SmallLinks'
<1>1. /\ ctx \in [Ends -> AnyContext] /\ "client" \in Ends /\ "server" \in Ends
      /\ allow["server"] \in SUBSET Algs
      /\ link \in [Ends -> Seq(SmallMessages)] /\ answer \in [Ends -> SmallMessages]
      /\ link \in [Ends -> Seq(Upto(Client.seq))]
  BY EndsFacts, PartTypes DEF TypesOK, SmallLinks, NoneAhead
<1>2. PICK kind \in {"register", "ping", "confirm"} :
        /\ Receives("server", kind) /\ ping' = ping /\ packed' = packed /\ used' = used
        /\ kind = "confirm" => OnRecvHandshakeConfirm
        /\ kind # "confirm" => OnRecvNodeRegisterReq \/ OnRecvNodePing
  BY DEF OnRecvNodeRegisterReq, OnRecvNodePing, OnRecvHandshakeConfirm
<1>3. PICK m : m = Head(ToServer)
  OBVIOUS
<1>4. PICK n : n = Client.seq
  OBVIOUS
<1>5. m \in SmallMessages /\ m.kind = kind /\ Popped("server") \in [Ends -> Seq(SmallMessages)]
  BY <1>1, <1>2, <1>3, PopFacts DEF ToServer
<1>6. m.hs.seq <= n
  <2>1. link \in [Ends -> Seq(Upto(n))]
    BY <1>1, <1>4
  <2>2. m \in Upto(n)
    BY <1>1, <1>2, <1>3, <2>1, PopFacts DEF ToServer
  <2> QED BY <2>2 DEF Upto
<1>7. /\ SmallContext(Client) /\ Client.self <= MaxKeys /\ Client.hsSeq <= n
      /\ Server.hsSeq <= n /\ Server.seq = 0 /\ SmallContext(Server) /\ used.keys <= MaxKeys
  BY <1>4 DEF SmallContexts
<1>8. ASSUME NEW t, ctx' = [ctx EXCEPT !["server"] = t], SmallContext(t), t.seq = 0, t.hsSeq <= n
      PROVE  SmallContexts'
  <2>1. Client' = Client /\ Server' = t
    BY <1>1, <1>8 DEF Client, Server
  <2> QED BY <1>2, <1>4, <1>7, <1>8, <2>1 DEF SmallContexts
<1>9. CASE kind = "confirm"
  <2>1. /\ ctx' = [ctx EXCEPT !["server"] = ConfirmHandshake(Server, m.hs.seq)]
        /\ link' = Popped("server") /\ answer' = answer
    BY <1>2, <1>3, <1>9 DEF OnRecvHandshakeConfirm, Server, ToServer
  <2>2. PICK t : t = ConfirmHandshake(Server, m.hs.seq)
    OBVIOUS
  <2>3. SmallContext(t) /\ t.seq = Server.seq /\ t.hsSeq = Server.hsSeq
    BY <1>7, <2>2, ConfirmSmall
  <2>4. SmallContexts'
    BY <1>7, <1>8, <2>1, <2>2, <2>3
  <2> QED BY <1>1, <1>2, <1>5, <2>1, <2>4 DEF SmallLinks
<1>10. CASE kind # "confirm"
  <2> DEFINE denial == Message("register_rsp", NoHandshake, FALSE, Plain)
  <2>1. OnRecvNodeRegisterReq \/ OnRecvNodePing
    BY <1>2, <1>10
  <2>2. PICK t, h : \E k \in {"register_rsp", "pong"} :
           /\ ServerTakes(Server, Head(ToServer), t, h)
           /\ ctx' = [ctx EXCEPT !["server"] = t]
           /\ \/ /\ link' = Popped("server")
                 /\ answer' = [answer EXCEPT !["server"] = Message(k, h, TRUE, Plain)]
              \/ /\ link' = [Popped("server") EXCEPT !["client"] = @ \o <<denial, denial>>]
                 /\ answer' = answer
    BY <2>1, ServerReadShape
  <2>3. PICK k \in {"register_rsp", "pong"} :
           /\ ServerTakes(Server, m, t, h)
           /\ ctx' = [ctx EXCEPT !["server"] = t]
           /\ \/ /\ link' = Popped("server")
                 /\ answer' = [answer EXCEPT !["server"] = Message(k, h, TRUE, Plain)]
              \/ /\ link' = [Popped("server") EXCEPT !["client"] = @ \o <<denial, denial>>]
                 /\ answer' = answer
    BY <1>3, <2>2
  <2>4. PICK c : c = Server
    OBVIOUS
  <2>5. /\ SmallContext(c) /\ m.kind \in {"register", "ping"} /\ ServerTakes(c, m, t, h)
        /\ m \in SmallMessages
    BY <1>5, <1>7, <1>10, <2>3, <2>4
  <2>6. /\ SmallContext(t) /\ t.seq = c.seq /\ t.hsSeq \in {c.hsSeq, m.hs.seq}
        /\ SmallHandshake(h)
    BY <1>1, <2>5, ServerTakesSmall
  <2>7. SmallContexts'
    BY <1>6, <1>7, <1>8, <2>3, <2>4, <2>6
  <2>8. k \in Kinds /\ k \notin {"register", "ping"} /\ TRUE \in BOOLEAN
    BY DEF Kinds
  <2>9. Message(k, h, TRUE, Plain) \in SmallMessages
    BY <2>6, <2>8, MessageSmall
  <2>10. denial \in SmallMessages
    BY SmallKinds
  <2> HIDE DEF denial
  <2>11. link["client"] \o <<denial, denial>> \in Seq(SmallMessages)
    BY <1>1, <2>10, ConcatProperties
  <2>12. [Popped("server") EXCEPT !["client"] = @ \o <<denial, denial>>] \in [Ends -> Seq(SmallMessages)]
    BY <1>1, <1>5, <2>11 DEF Popped
  <2>13. link' \in [Ends -> Seq(SmallMessages)] /\ answer' \in [Ends -> SmallMessages]
    BY <1>1, <1>5, <2>3, <2>9, <2>12
  <2> QED BY <1>2, <2>7, <2>13 DEF SmallLinks
<1> QED BY <1>9, <1>10

\* The client's handlers keep everything in range.
LEMMA ClientReadSmall ==
  ASSUME TypesOK, SmallContexts, SmallLinks, OnRecvNodeRegisterRsp \/ OnRecvNodePong
  PROVE  SmallContexts' /\ SmallLinks'
<1>1. /\ ctx \in [Ends -> AnyContext] /\ "client" \in Ends /\ "server" \in Ends
      /\ allow["client"] \in SUBSET Algs
      /\ link \in [Ends -> Seq(SmallMessages)] /\ answer \in [Ends -> SmallMessages]
  BY EndsFacts, PartTypes DEF TypesOK, SmallLinks
<1>2. PICK m : m = Head(ToClient)
  OBVIOUS
<1>3. PICK kind \in {"register_rsp", "pong"} :
        /\ Receives("client", kind) /\ ping' = ping /\ packed' = packed /\ used' = used
        /\ link' = Popped("client")
        /\ ClientNegotiate(m) \/ (ctx' = ctx /\ answer' = answer)
  BY <1>2 DEF OnRecvNodeRegisterRsp, OnRecvNodePong, ToClient
<1>4. m \in SmallMessages /\ link' \in [Ends -> Seq(SmallMessages)]
  BY <1>1, <1>2, <1>3, PopFacts DEF ToClient
<1>5. CASE ctx' = ctx /\ answer' = answer
  BY <1>3, <1>4, <1>5 DEF SmallContexts, SmallLinks, Client, Server
<1>6. CASE ClientNegotiate(m)
  <2>1. PICK c, hs, allowed : c = Client /\ hs = m.hs /\ allowed = allow["client"]
    OBVIOUS
  <2>2. PICK u : u = HandshakeReadPeerKey(c, hs, allowed, FALSE)
    OBVIOUS
  <2>3. PICK d : d = GetNextSequence(u)
    OBVIOUS
  <2>4. /\ ctx' = [ctx EXCEPT !["client"] = d]
        /\ answer' = [answer EXCEPT !["client"] = Message("confirm", hs, TRUE, Plain)]
    BY <1>6, <2>1, <2>2, <2>3 DEF ClientNegotiate, Client
  <2>5. /\ SmallContext(c) /\ SmallHandshake(hs) /\ allowed \in SUBSET Algs
        /\ c.self <= MaxKeys /\ c.hsSeq <= c.seq /\ Server.hsSeq <= c.seq /\ Server.seq = 0
        /\ SmallContext(Server) /\ used.keys <= MaxKeys
    BY <1>1, <1>4, <2>1 DEF SmallContexts, SmallMessages
  <2>6. /\ SmallContext(u) /\ u.self = c.self /\ u.hsSeq = c.hsSeq /\ u.seq = c.seq
    BY <2>2, <2>5, ReadSmall
  <2>7. SmallContext(d) /\ d.self = u.self /\ d.hsSeq = u.hsSeq /\ d.seq = u.seq + 1
    BY <2>3, <2>6, NextSequenceSmall
  <2>8. d.hsSeq <= d.seq /\ Server.hsSeq <= d.seq
    <3>1. c.seq \in Nat /\ c.hsSeq \in Nat /\ Server.hsSeq \in Nat
      BY <2>5 DEF SmallContext, AnyContext
    <3> QED BY <2>5, <2>6, <2>7, <3>1
  <2>9. Client' = d /\ Server' = Server
    BY <1>1, <2>4 DEF Client, Server
  <2>10. SmallContexts'
    BY <1>3, <2>5, <2>6, <2>7, <2>8, <2>9 DEF SmallContexts
  <2>11. "confirm" \in Kinds \ {"register", "ping"} /\ TRUE \in BOOLEAN
    BY DEF Kinds
  <2>12. Message("confirm", hs, TRUE, Plain) \in SmallMessages
    BY <2>5, <2>11, MessageSmall
  <2> QED BY <1>1, <1>3, <1>4, <2>4, <2>10, <2>12 DEF SmallLinks
<1> QED BY <1>3, <1>5, <1>6

\* Everything is in range at the start.
LEMMA InitSmall == Init => SmallContexts /\ SmallLinks /\ Client.seq <= 2 * used.keys
<1> SUFFICES ASSUME Init PROVE SmallContexts /\ SmallLinks /\ Client.seq <= 2 * used.keys
  OBVIOUS
<1>1. PICK kx \in [Ends -> AnyKx], preset \in BOOLEAN, primed \in BOOLEAN :
        LET fresh(e) == [NewConnectionContext(kx[e]) EXCEPT
                           !.read = IF preset THEN PresetCipher ELSE Plain,
                           !.write = IF preset THEN PresetCipher ELSE Plain]
        IN  /\ ctx = [e \in Ends |-> IF primed /\ e = "client"
                                     THEN HandshakeGenerateSelfKey(fresh(e), 0, 1)
                                     ELSE fresh(e)]
            /\ used = [keys |-> IF primed THEN 1 ELSE 0, data |-> 0, refused |-> 0, reloads |-> 0]
  BY DEF Init, AnyKx
<1> DEFINE cipher == IF preset THEN PresetCipher ELSE Plain
           fresh(e) == [NewConnectionContext(kx[e]) EXCEPT !.read = cipher, !.write = cipher]
<1>2. cipher \in Ciphers /\ cipher \in AnyCipher
  BY SmallConstants, ConstantFacts DEF PresetCipher, AnyCipher
<1>3. /\ ctx = [e \in Ends |-> IF primed /\ e = "client"
                               THEN HandshakeGenerateSelfKey(fresh(e), 0, 1) ELSE fresh(e)]
      /\ used.keys = IF primed THEN 1 ELSE 0
  BY <1>1
<1> HIDE DEF cipher
<1>4. \A e \in Ends : SmallContext(fresh(e)) /\ fresh(e).self = 0 /\ fresh(e).seq = 0 /\ fresh(e).hsSeq = 0
  <2> SUFFICES ASSUME NEW e \in Ends
               PROVE  SmallContext(fresh(e)) /\ fresh(e).self = 0 /\ fresh(e).seq = 0 /\ fresh(e).hsSeq = 0
    OBVIOUS
  <2> DEFINE c == NewConnectionContext(kx[e])
  <2>1. c \in AnyContext /\ c.staged = Plain /\ c.self = 0 /\ c.seq = 0 /\ c.hsSeq = 0
    BY ConstantFacts DEF NewConnectionContext, AnyContext
  <2> HIDE DEF c
  <2>2. /\ fresh(e) \in AnyContext /\ fresh(e).read = cipher /\ fresh(e).write = cipher
        /\ fresh(e).staged = Plain /\ fresh(e).self = 0 /\ fresh(e).seq = 0 /\ fresh(e).hsSeq = 0
    BY <1>2, <2>1 DEF AnyContext, c
  <2> HIDE DEF fresh
  <2> QED BY <1>2, <2>2, SmallConstants DEF SmallContext
<1> HIDE DEF fresh
<1>5. /\ Server = fresh("server")
      /\ Client = IF primed THEN HandshakeGenerateSelfKey(fresh("client"), 0, 1) ELSE fresh("client")
  BY <1>3, EndsFacts DEF Client, Server
<1>6. /\ SmallContext(Client) /\ Client.self <= 1 /\ Client.self <= MaxKeys
      /\ Client.hsSeq <= Client.seq /\ Client.seq <= used.keys /\ Client.seq \in Nat
  <2>1. PICK c : c = fresh("client")
    OBVIOUS
  <2>2. SmallContext(c) /\ c.self = 0 /\ c.seq = 0 /\ c.hsSeq = 0
    BY <1>4, <2>1, EndsFacts
  <2>3. CASE ~primed
    BY <1>3, <1>5, <2>1, <2>2, <2>3, SmallConstants
  <2>4. CASE primed
    <3>1. PICK zero \in Nat, one \in KeyPairs : zero = 0 /\ one = 1
      BY SmallConstants
    <3>2. PICK made : made = HandshakeGenerateSelfKey(c, zero, one)
      OBVIOUS
    <3>3. /\ SmallContext(made)
          /\ made.seq = IF zero = 0 THEN c.seq + 1 ELSE c.seq
          /\ made.hsSeq = IF zero = 0 THEN c.seq + 1 ELSE zero
          /\ made.self = IF c.kx # NoKx THEN one ELSE c.self
      BY ONLY <2>2, <3>2, GenerateSmall
    <3>4. Client = made /\ used.keys = 1
      BY <1>3, <1>5, <2>1, <2>4, <3>1, <3>2
    <3> QED BY <2>2, <3>1, <3>3, <3>4, SmallConstants
  <2> QED BY <2>3, <2>4
<1>7. SmallContexts
  <2>1. SmallContext(Server) /\ Server.seq = 0 /\ Server.hsSeq = 0
    BY <1>4, <1>5, EndsFacts
  <2>2. used.keys \in {0, 1} /\ used.keys <= MaxKeys
    BY <1>3, SmallConstants
  <2> QED BY <1>6, <2>1, <2>2 DEF SmallContexts
<1>8. SmallLinks
  <2>1. <<>> \in Seq(SmallMessages) /\ Nothing \in SmallMessages
    BY EmptySeq, SmallKinds
  <2>2. /\ link = [e \in Ends |-> <<>>] /\ answer = [e \in Ends |-> Nothing]
        /\ ping = Nothing /\ packed = [e \in Ends |-> Nothing]
    BY DEF Init
  <2> QED BY <2>1, <2>2 DEF SmallLinks
<1>9. Client.seq <= 2 * used.keys
  <2>1. used.keys \in Nat
    BY <1>3
  <2> QED BY <1>6, <2>1
<1> QED BY <1>7, <1>8, <1>9

\* Every step keeps everything in range.
LEMMA NextSmall ==
  ASSUME SessionInv, SmallContexts, SmallLinks, [Next]_vars
  PROVE  SmallContexts' /\ SmallLinks'
<1>1. TypesOK /\ NoneAhead /\ "client" \in Ends
  BY SessionTypes, SessionNoneAhead, EndsFacts
<1>2. CASE SendRegister \/ SendPing
  BY <1>1, <1>2, StartSmall
<1>3. CASE OnRecvNodeRegisterReq \/ OnRecvNodePing \/ OnRecvHandshakeConfirm
  BY <1>1, <1>3, ServerReadSmall
<1>4. CASE OnRecvNodeRegisterRsp \/ OnRecvNodePong
  BY <1>1, <1>4, ClientReadSmall
<1>5. CASE PushPing \/ UNCHANGED vars
  BY <1>1, <1>5, StillSmall
<1>6. ASSUME NEW e \in Ends, PushAnswer(e) \/ RefuseAnswer(e) \/ PackData(e) \/ PushData(e)
                               \/ OnRecvData(e) \/ ReloadCrypto(e)
      PROVE  SmallContexts' /\ SmallLinks'
  BY <1>1, <1>6, StillSmall
<1> QED BY <1>2, <1>3, <1>4, <1>5, <1>6 DEF Next

----------------------------------------------------------------------------
(* The sequences the client may still take.                                *)

\* How many messages of a link carry a handshake: f counts those after each
\* place.
Weight(m) == IF m \in Carriers THEN 1 ELSE 0
Counts(q, n) ==
    \E f \in [0..Len(q) -> Nat] :
      /\ f[0] = n /\ f[Len(q)] = 0
      /\ \A i \in 1..Len(q) : f[i - 1] = f[i] + Weight(q[i])

\* The client takes one sequence for its request and one for the confirmation
\* of the answer, and a handshake is in one place at a time: with what is under
\* way, it has taken at most two for each key pair.
BudgetInv ==
    \E a, b \in Nat :
      /\ Counts(ToServer, a) /\ Counts(ToClient, b)
      /\ Client.seq + a + b + Weight(ping) + Weight(answer["server"]) <= 2 * used.keys

\* A weight is 0 or 1, and what cannot carry a handshake has none.
LEMMA WeightFacts ==
  /\ \A m : Weight(m) \in Nat /\ Weight(m) <= 1
  /\ \A m : m \in Carriers => Weight(m) = 1
  /\ \A m : m \notin Carriers => Weight(m) = 0
  /\ Weight(Nothing) = 0
<1>1. Nothing \notin Carriers
  BY KindFacts
<1> QED BY <1>1 DEF Weight

\* Nothing is on an empty link.
LEMMA CountsEmpty == Counts(<<>>, 0)
<1> DEFINE f == [i \in 0..0 |-> 0]
<1>1. Len(<<>>) = 0 /\ 1..0 = {} /\ f \in [0..0 -> Nat] /\ f[0] = 0
  OBVIOUS
<1> HIDE DEF f
<1> QED BY <1>1 DEF Counts

\* A pushed message counts with its weight.
LEMMA CountsAppend ==
  ASSUME NEW q \in Seq(AnyMessage), NEW m \in AnyMessage, NEW n \in Nat, Counts(q, n),
         NEW r, r = Append(q, m)
  PROVE  Counts(r, n + Weight(m))
<1>1. PICK f \in [0..Len(q) -> Nat] :
        /\ f[0] = n /\ f[Len(q)] = 0
        /\ \A i \in 1..Len(q) : f[i - 1] = f[i] + Weight(q[i])
  BY DEF Counts
<1>2. PICK w \in Nat : w = Weight(m)
  BY WeightFacts
<1>3. /\ Len(q) \in Nat /\ Len(r) = Len(q) + 1 /\ r[Len(q) + 1] = m
      /\ \A i \in 1..Len(q) : r[i] = q[i]
  BY LinkAppend
<1>4. PICK k \in Nat : k = Len(q)
  BY <1>3
<1> DEFINE g == [i \in 0..(k + 1) |-> IF i = k + 1 THEN 0 ELSE f[i] + w]
<1>5. f \in [0..k -> Nat]
  BY <1>4
<1>6. g \in [0..(k + 1) -> Nat]
  <2> SUFFICES ASSUME NEW i \in 0..(k + 1) PROVE (IF i = k + 1 THEN 0 ELSE f[i] + w) \in Nat
    OBVIOUS
  <2>1. i # k + 1 => i \in 0..k
    OBVIOUS
  <2>2. i # k + 1 => f[i] \in Nat
    BY <1>5, <2>1
  <2> QED BY <2>2
<1>7. g[k + 1] = 0 /\ \A i \in 0..k : g[i] = f[i] + w
  OBVIOUS
<1> HIDE DEF g
<1>8. g[0] = n + w
  BY <1>1, <1>7
<1>9. ASSUME NEW i \in 1..(k + 1) PROVE g[i - 1] = g[i] + Weight(r[i])
  <2>1. CASE i = k + 1
    <3>1. i - 1 = k /\ k \in 0..k /\ r[i] = m
      BY <1>3, <1>4, <2>1
    <3>2. g[k] = f[k] + w /\ f[k] = 0
      BY <1>1, <1>4, <1>7, <3>1
    <3> QED BY <1>2, <1>7, <2>1, <3>1, <3>2
  <2>2. CASE i # k + 1
    <3>1. i \in 1..k /\ i - 1 \in 0..k /\ i \in 0..k
      BY <2>2
    <3>2. f[i - 1] = f[i] + Weight(r[i])
      BY <1>1, <1>3, <1>4, <3>1
    <3>3. g[i - 1] = f[i - 1] + w /\ g[i] = f[i] + w
      BY <1>7, <3>1
    <3>4. f[i] \in Nat /\ Weight(r[i]) \in Nat
      BY <1>5, <3>1, WeightFacts
    <3> QED BY ONLY <3>2, <3>3, <3>4, SMTT(60)
  <2> QED BY <2>1, <2>2
<1>10. Len(r) = k + 1 /\ g[Len(r)] = 0 /\ g[0] = n + Weight(m)
  BY <1>2, <1>3, <1>4, <1>7, <1>8
<1>11. g \in [0..Len(r) -> Nat] /\ \A i \in 1..Len(r) : g[i - 1] = g[i] + Weight(r[i])
  BY <1>6, <1>9, <1>10
<1> QED BY <1>10, <1>11 DEF Counts

\* A message that is read counts no more.
LEMMA CountsTail ==
  ASSUME NEW q \in Seq(AnyMessage), q # <<>>, NEW n \in Nat, Counts(q, n), NEW r, r = Tail(q)
  PROVE  \E k \in Nat : Counts(r, k) /\ n = k + Weight(Head(q))
<1>1. PICK f \in [0..Len(q) -> Nat] :
        /\ f[0] = n /\ f[Len(q)] = 0
        /\ \A i \in 1..Len(q) : f[i - 1] = f[i] + Weight(q[i])
  BY DEF Counts
<1>2. /\ Len(r) \in Nat /\ Len(q) = Len(r) + 1 /\ Head(q) = q[1]
      /\ \A i \in 1..Len(r) : r[i] = q[i + 1]
  BY LinkTail
<1>3. PICK l \in Nat : l = Len(r)
  BY <1>2
<1>4. f \in [0..(l + 1) -> Nat] /\ f[l + 1] = 0
  BY <1>1, <1>2, <1>3
<1> DEFINE g == [i \in 0..l |-> f[i + 1]]
<1>5. g \in [0..l -> Nat] /\ \A i \in 0..l : g[i] = f[i + 1]
  BY <1>4
<1> HIDE DEF g
<1>6. g[0] = f[1] /\ g[l] = 0 /\ f[1] \in Nat
  BY <1>4, <1>5
<1>7. ASSUME NEW i \in 1..l PROVE g[i - 1] = g[i] + Weight(r[i])
  <2>1. i + 1 \in 1..(l + 1) /\ i - 1 \in 0..l /\ i \in 0..l /\ (i + 1) - 1 = i /\ (i - 1) + 1 = i
    OBVIOUS
  <2>2. f[i] = f[i + 1] + Weight(q[i + 1])
    BY <1>1, <1>2, <1>3, <2>1
  <2> QED BY <1>2, <1>3, <1>5, <2>1, <2>2
<1>8. Counts(r, f[1])
  BY <1>3, <1>5, <1>6, <1>7 DEF Counts
<1>9. n = f[1] + Weight(Head(q))
  <2>1. 1 \in 1..Len(q) /\ 1 - 1 = 0
    BY <1>2
  <2> QED BY <1>1, <1>2, <2>1
<1> QED BY <1>6, <1>8, <1>9

\* What has to be shown of a step.
LEMMA Affordable ==
  ASSUME NEW a \in Nat, NEW b \in Nat, Counts(ToServer', a), Counts(ToClient', b),
         Client'.seq + a + b + Weight(ping') + Weight(answer'["server"]) <= 2 * used'.keys
  PROVE  BudgetInv'
BY DEF BudgetInv

\* The terms of the budget are numbers.
LEMMA BudgetTypes ==
  ASSUME TypesOK
  PROVE  /\ Client.seq \in Nat /\ used.keys \in Nat /\ Weight(ping) \in Nat
         /\ Weight(answer["server"]) \in Nat
BY PartTypes, WeightFacts DEF TypesOK, AnyContext

\* The steps that leave the contexts alone only move or drop what is under way.
LEMMA StillBudget ==
  ASSUME TypesOK, Flow, BudgetInv, NEW e \in Ends,
         \/ PushPing \/ PushAnswer(e) \/ RefuseAnswer(e) \/ PackData(e) \/ PushData(e)
         \/ OnRecvData(e) \/ ReloadCrypto(e) \/ UNCHANGED vars
  PROVE  BudgetInv'
<1>1. PICK a \in Nat, b \in Nat :
        /\ Counts(ToServer, a) /\ Counts(ToClient, b)
        /\ Client.seq + a + b + Weight(ping) + Weight(answer["server"]) <= 2 * used.keys
  BY DEF BudgetInv
<1>2. ctx' = ctx /\ used'.keys = used.keys
  BY DEF TypesOK, PushPing, PushAnswer, RefuseAnswer, PackData, PushData, OnRecvData, ReloadCrypto, vars
<1>3. Client' = Client
  BY <1>2 DEF Client
<1>4. /\ Client.seq \in Nat /\ used.keys \in Nat /\ Weight(ping) \in Nat
      /\ Weight(answer["server"]) \in Nat /\ Weight(Nothing) = 0
  BY BudgetTypes, WeightFacts
<1>5. /\ ToServer \in Seq(AnyMessage) /\ ToClient \in Seq(AnyMessage) /\ ping \in AnyMessage
      /\ \A f \in Ends : answer[f] \in AnyMessage /\ packed[f] \in AnyMessage
      /\ answer \in [Ends -> AnyMessage] /\ "server" \in Ends /\ "client" \in Ends
  BY PartTypes, EndsFacts DEF TypesOK
<1>6. e \in {"client", "server"} /\ Peer("client") = "server" /\ Peer("server") = "client"
  BY DEF Ends, Peer
<1>7. CASE UNCHANGED vars \/ ReloadCrypto(e) \/ PackData(e)
  <2>1. ToServer' = ToServer /\ ToClient' = ToClient /\ ping' = ping /\ answer' = answer
    BY <1>7 DEF vars, ReloadCrypto, PackData, ToServer, ToClient
  <2> QED BY <1>1, <1>2, <1>3, <2>1, Affordable
<1>8. CASE PushPing
  <2>1. ping' = Nothing /\ answer' = answer /\ link' \in {link, PushedTo("server", ping)}
    BY <1>8 DEF PushPing
  <2>2. CASE link' = link
    <3>1. ToServer' = ToServer /\ ToClient' = ToClient
      BY <2>2 DEF ToServer, ToClient
    <3>2. Client'.seq + a + b + Weight(ping') + Weight(answer'["server"]) <= 2 * used'.keys
      BY <1>1, <1>2, <1>3, <1>4, <2>1
    <3> QED BY <1>1, <3>1, <3>2, Affordable
  <2>3. CASE link' = PushedTo("server", ping)
    <3>1. ToServer' = Append(ToServer, ping) /\ ToClient' = ToClient
      BY <2>3, LinksPushed
    <3>2. PICK k \in Nat : k = a + Weight(ping)
      BY <1>4
    <3>3. Counts(ToServer', k)
      BY <1>1, <1>5, <3>1, <3>2, CountsAppend
    <3>4. Client'.seq + k + b + Weight(ping') + Weight(answer'["server"]) <= 2 * used'.keys
      BY <1>1, <1>2, <1>3, <1>4, <2>1, <3>2
    <3> QED BY <1>1, <3>1, <3>3, <3>4, Affordable
  <2> QED BY <2>1, <2>2, <2>3
<1>9. CASE PushAnswer(e)
  <2>1. /\ link' = PushedTo(Peer(e), answer[e]) /\ answer' = [answer EXCEPT ![e] = Nothing]
        /\ ping' = ping /\ answer[e] # Nothing
    BY <1>9 DEF PushAnswer
  <2>2. CASE e = "client"
    <3>1. ToServer' = Append(ToServer, answer["client"]) /\ ToClient' = ToClient
      BY <1>6, <2>1, <2>2, LinksPushed
    <3>2. answer["client"] \notin Carriers
      BY <2>1, <2>2 DEF Flow, Roles, Carriers, CarriesHandshake
    <3>3. answer["client"] \in AnyMessage /\ Weight(answer["client"]) = 0
      BY <1>5, <3>2, WeightFacts
    <3>4. Counts(ToServer', a + Weight(answer["client"]))
      BY <1>1, <1>5, <3>1, <3>3, CountsAppend
    <3>5. Counts(ToServer', a) /\ answer'["server"] = answer["server"]
      BY <1>5, <2>1, <2>2, <3>3, <3>4
    <3> QED BY <1>1, <1>2, <1>3, <2>1, <3>1, <3>5, Affordable
  <2>3. CASE e = "server"
    <3>1. ToClient' = Append(ToClient, answer["server"]) /\ ToServer' = ToServer
      BY <1>6, <2>1, <2>3, LinksPushed
    <3>2. answer'["server"] = Nothing
      BY <1>5, <2>1, <2>3
    <3>3. PICK k \in Nat : k = b + Weight(answer["server"])
      BY <1>4
    <3>4. answer["server"] \in AnyMessage
      BY <1>5
    <3>5. Counts(ToClient', k)
      BY <1>1, <1>5, <3>1, <3>3, <3>4, CountsAppend
    <3>6. Client'.seq + a + k + Weight(ping') + Weight(answer'["server"]) <= 2 * used'.keys
      BY <1>1, <1>2, <1>3, <1>4, <2>1, <3>2, <3>3
    <3> QED BY <1>1, <3>1, <3>5, <3>6, Affordable
  <2> QED BY <1>6, <2>2, <2>3
<1>10. CASE RefuseAnswer(e)
  <2>1. link' = link /\ answer' = [answer EXCEPT ![e] = Nothing] /\ ping' = ping
    BY <1>10 DEF RefuseAnswer
  <2>2. ToServer' = ToServer /\ ToClient' = ToClient
    BY <2>1 DEF ToServer, ToClient
  <2>3. answer'["server"] \in {answer["server"], Nothing}
    BY <1>5, <2>1
  <2>4. Client'.seq + a + b + Weight(ping') + Weight(answer'["server"]) <= 2 * used'.keys
    BY <1>1, <1>2, <1>3, <1>4, <2>1, <2>3
  <2> QED BY <1>1, <2>2, <2>4, Affordable
<1>11. CASE PushData(e)
  <2>1. link' = PushedTo(Peer(e), packed[e]) /\ ping' = ping /\ answer' = answer /\ packed[e] # Nothing
    BY <1>11 DEF PushData
  <2>2. PICK m : m = packed[e]
    OBVIOUS
  <2>3. m \in AnyMessage /\ m \notin Carriers
    BY <1>5, <2>1, <2>2 DEF Flow, Roles, Carriers, CarriesHandshake
  <2>4. Weight(m) = 0
    BY <2>3, WeightFacts
  <2>5. /\ Counts(Append(ToServer, m), a + Weight(m)) /\ Counts(Append(ToClient, m), b + Weight(m))
    BY <1>1, <1>5, <2>3, CountsAppend
  <2>6. /\ Counts(Append(ToServer, m), a) /\ Counts(Append(ToClient, m), b)
    BY <2>4, <2>5
  <2>7. \/ ToServer' = Append(ToServer, m) /\ ToClient' = ToClient
        \/ ToClient' = Append(ToClient, m) /\ ToServer' = ToServer
    BY <1>6, <2>1, <2>2, LinksPushed
  <2>8. Counts(ToServer', a) /\ Counts(ToClient', b)
    BY <1>1, <2>6, <2>7
  <2> QED BY <1>1, <1>2, <1>3, <2>1, <2>8, Affordable
<1>12. CASE OnRecvData(e)
  <2>1. link' = Popped(e) /\ Receives(e, "data") /\ ping' = ping /\ answer' = answer
    BY <1>12 DEF OnRecvData
  <2>2. CASE e = "server"
    <3>1. ToServer' = Tail(ToServer) /\ ToClient' = ToClient /\ ToServer # <<>>
      BY <2>1, <2>2, LinksPopped
    <3>2. PICK k \in Nat : Counts(ToServer', k) /\ a = k + Weight(Head(ToServer))
      BY <1>1, <1>5, <3>1, CountsTail
    <3>3. Client'.seq + k + b + Weight(ping') + Weight(answer'["server"]) <= 2 * used'.keys
      <4>1. Weight(Head(ToServer)) \in Nat
        BY WeightFacts
      <4> QED BY <1>1, <1>2, <1>3, <1>4, <2>1, <3>2, <4>1
    <3> QED BY <1>1, <3>1, <3>2, <3>3, Affordable
  <2>3. CASE e = "client"
    <3>1. ToClient' = Tail(ToClient) /\ ToServer' = ToServer /\ ToClient # <<>>
      BY <2>1, <2>3, LinksPopped
    <3>2. PICK k \in Nat : Counts(ToClient', k) /\ b = k + Weight(Head(ToClient))
      BY <1>1, <1>5, <3>1, CountsTail
    <3>3. Client'.seq + a + k + Weight(ping') + Weight(answer'["server"]) <= 2 * used'.keys
      <4>1. Weight(Head(ToClient)) \in Nat
        BY WeightFacts
      <4> QED BY <1>1, <1>2, <1>3, <1>4, <2>1, <3>2, <4>1
    <3> QED BY <1>1, <3>1, <3>2, <3>3, Affordable
  <2> QED BY <1>6, <2>2, <2>3
<1> QED BY <1>7, <1>8, <1>9, <1>10, <1>11, <1>12

\* The client's request takes one sequence and is under way, for a new key pair.
LEMMA StartBudget ==
  ASSUME TypesOK, Flow, BudgetInv, SendRegister \/ SendPing
  PROVE  BudgetInv'
<1>1. PICK a \in Nat, b \in Nat :
        /\ Counts(ToServer, a) /\ Counts(ToClient, b)
        /\ Client.seq + a + b + Weight(ping) + Weight(answer["server"]) <= 2 * used.keys
  BY DEF BudgetInv
<1>2. /\ Client.seq \in Nat /\ used.keys \in Nat /\ Weight(ping) \in Nat
      /\ Weight(answer["server"]) \in Nat /\ Weight(Nothing) = 0
  BY BudgetTypes, WeightFacts
<1>3. /\ Client \in AnyContext /\ ctx \in [Ends -> AnyContext] /\ "client" \in Ends
      /\ used \in [keys : Nat, data : Nat, refused : Nat, reloads : Nat]
      /\ ToServer \in Seq(AnyMessage) /\ allow["client"] \in SUBSET AnyAlg
  BY PartTypes, EndsFacts, SmallConstants DEF TypesOK
<1>4. PICK c, allowed : c = Client /\ allowed = allow["client"]
  OBVIOUS
<1>5. PICK made : made = HandshakeGenerateSelfKey(c, 0, used.keys + 1)
  OBVIOUS
<1>6. made \in AnyContext /\ made.seq = Client.seq + 1
  <2>1. PICK zero \in Nat, pair \in Nat : zero = 0 /\ pair = used.keys + 1
    BY <1>2
  <2>2. c \in AnyContext
    BY <1>3, <1>4
  <2>3. LET u == HandshakeGenerateSelfKey(c, zero, pair)
        IN  u \in AnyContext /\ u.seq = IF zero = 0 THEN c.seq + 1 ELSE c.seq
    BY ONLY <2>2, GenerateFacts
  <2> QED BY <1>4, <1>5, <2>1, <2>3
<1>7. ASSUME ctx' = [ctx EXCEPT !["client"] = made], used' = [used EXCEPT !.keys = @ + 1]
      PROVE  Client'.seq = Client.seq + 1 /\ used'.keys = used.keys + 1
  BY <1>3, <1>6, <1>7 DEF Client
<1>8. CASE SendPing
  <2>1. /\ ping = Nothing /\ ctx' = [ctx EXCEPT !["client"] = made]
        /\ used' = [used EXCEPT !.keys = @ + 1] /\ link' = link /\ answer' = answer
    BY <1>4, <1>5, <1>8 DEF SendPing, Client
  <2>2. ToServer' = ToServer /\ ToClient' = ToClient /\ Weight(ping') \in Nat /\ Weight(ping') <= 1
    BY <2>1, WeightFacts DEF ToServer, ToClient
  <2>3. Client'.seq = Client.seq + 1 /\ used'.keys = used.keys + 1
    BY <1>7, <2>1
  <2>4. Client'.seq + a + b + Weight(ping') + Weight(answer'["server"]) <= 2 * used'.keys
    BY <1>1, <1>2, <2>1, <2>2, <2>3
  <2> QED BY <1>1, <2>2, <2>4, Affordable
<1>9. CASE SendRegister
  <2>1. PICK hs :
          /\ hs \in {NoHandshake, HandshakeWriteSelfPublicKey(made, allowed)}
          /\ link' = PushedTo("server", Message("register", hs, TRUE, Plain))
          /\ \/ hs = NoHandshake /\ ctx' = ctx /\ used' = used
             \/ ctx' = [ctx EXCEPT !["client"] = made] /\ used' = [used EXCEPT !.keys = @ + 1]
    BY <1>4, <1>5, <1>9 DEF SendRegister, Client
  <2>2. answer' = answer /\ ping' = ping
    BY <1>9 DEF SendRegister
  <2>3. PICK m : m = Message("register", hs, TRUE, Plain)
    OBVIOUS
  <2>4. m \in AnyMessage /\ (hs = NoHandshake => m \notin Carriers)
    <3>1. hs \in AnyHandshake
      BY <1>3, <1>4, <1>6, <2>1, WriteFacts, ConstantFacts
    <3>2. m \in AnyMessage
      BY <2>3, <3>1, ConstantFacts DEF Message, AnyMessage, Kinds
    <3> QED BY <2>3, <3>2 DEF Message, NoHandshake, Carriers, CarriesHandshake
  <2>5. ToServer' = Append(ToServer, m) /\ ToClient' = ToClient
    BY <2>1, <2>3, LinksPushed
  <2>6. PICK k \in Nat : k = a + Weight(m)
    BY WeightFacts
  <2>7. Counts(ToServer', k)
    BY <1>1, <1>3, <2>4, <2>5, <2>6, CountsAppend
  <2>8. CASE hs = NoHandshake /\ ctx' = ctx /\ used' = used
    <3>1. Weight(m) = 0 /\ Client' = Client
      BY <2>4, <2>8, WeightFacts DEF Client
    <3>2. Client'.seq + k + b + Weight(ping') + Weight(answer'["server"]) <= 2 * used'.keys
      BY <1>1, <1>2, <2>2, <2>6, <2>8, <3>1
    <3> QED BY <1>1, <2>5, <2>7, <3>2, Affordable
  <2>9. CASE ctx' = [ctx EXCEPT !["client"] = made] /\ used' = [used EXCEPT !.keys = @ + 1]
    <3>1. Client'.seq = Client.seq + 1 /\ used'.keys = used.keys + 1
      BY <1>7, <2>9
    <3>2. Weight(m) \in Nat /\ Weight(m) <= 1
      BY WeightFacts
    <3>3. Client'.seq + k + b + Weight(ping') + Weight(answer'["server"]) <= 2 * used'.keys
      BY <1>1, <1>2, <2>2, <2>6, <3>1, <3>2
    <3> QED BY <1>1, <2>5, <2>7, <3>3, Affordable
  <2> QED BY <2>1, <2>8, <2>9
<1> QED BY <1>8, <1>9

\* The server answers a handshake with at most one.
LEMMA ServerReadBudget ==
  ASSUME TypesOK, Flow, BudgetInv,
         OnRecvNodeRegisterReq \/ OnRecvNodePing \/ OnRecvHandshakeConfirm
  PROVE  BudgetInv'
<1>1. PICK a \in Nat, b \in Nat :
        /\ Counts(ToServer, a) /\ Counts(ToClient, b)
        /\ Client.seq + a + b + Weight(ping) + Weight(answer["server"]) <= 2 * used.keys
  BY DEF BudgetInv
<1>2. /\ Client.seq \in Nat /\ used.keys \in Nat /\ Weight(ping) \in Nat
      /\ Weight(answer["server"]) \in Nat /\ Weight(Nothing) = 0
  BY BudgetTypes, WeightFacts
<1>3. /\ Server \in AnyContext /\ ctx \in [Ends -> AnyContext] /\ "client" \in Ends /\ "server" \in Ends
      /\ ToServer \in Seq(AnyMessage) /\ ToClient \in Seq(AnyMessage)
      /\ link \in [Ends -> Seq(AnyMessage)] /\ answer \in [Ends -> AnyMessage]
  BY PartTypes, EndsFacts DEF TypesOK
<1>4. PICK kind \in {"register", "ping", "confirm"} :
        Receives("server", kind) /\ ping' = ping /\ used' = used
  BY DEF OnRecvNodeRegisterReq, OnRecvNodePing, OnRecvHandshakeConfirm
<1>5. ToServer # <<>> /\ answer["server"] = Nothing
  BY <1>4, LinksPopped
<1>6. PICK m : m = Head(ToServer)
  OBVIOUS
<1>7. m \in AnyMessage
  BY <1>3, <1>5, <1>6, LinkTail
<1>8. \E t : ctx' = [ctx EXCEPT !["server"] = t]
  BY DEF OnRecvNodeRegisterReq, OnRecvNodePing, OnRecvHandshakeConfirm
<1>9. Client' = Client
  BY <1>3, <1>8 DEF Client
<1>10. PICK k \in Nat : Counts(Tail(ToServer), k) /\ a = k + Weight(m)
  BY <1>1, <1>3, <1>5, <1>6, CountsTail
<1>11. PICK s \in Nat, p \in Nat, w \in Nat, u \in Nat :
         s = Client.seq /\ p = Weight(ping) /\ w = Weight(m) /\ u = used.keys
  BY <1>2, WeightFacts
<1>12. s + (k + w) + b + p + 0 <= 2 * u
  BY <1>1, <1>2, <1>5, <1>10, <1>11
<1>13. ASSUME NEW x \in Nat, x <= w PROVE s + k + b + p + x <= 2 * u
  BY ONLY <1>12, <1>13, k \in Nat, b \in Nat, w \in Nat, p \in Nat, s \in Nat, u \in Nat
<1>14. Weight(m) \in Nat /\ Client'.seq = s /\ Weight(ping') = p /\ used'.keys = u
  BY <1>4, <1>9, <1>11
<1>15. ASSUME link' = Popped("server"), Weight(answer'["server"]) \in Nat,
              Weight(answer'["server"]) <= Weight(m)
       PROVE  BudgetInv'
  <2>1. ToServer' = Tail(ToServer) /\ ToClient' = ToClient
    BY <1>15, LinksPopped
  <2>2. Client'.seq + k + b + Weight(ping') + Weight(answer'["server"]) <= 2 * used'.keys
    BY <1>14, <1>15, <1>11, <1>13
  <2> QED BY <1>1, <1>10, <2>1, <2>2, Affordable
<1>16. CASE OnRecvHandshakeConfirm
  <2>1. link' = Popped("server") /\ answer' = answer
    BY <1>16 DEF OnRecvHandshakeConfirm
  <2> QED BY <1>2, <1>5, <1>14, <1>15, <2>1
<1>17. CASE OnRecvNodePing
  <2>1. PICK h : /\ answer' = [answer EXCEPT !["server"] = Message("pong", h, TRUE, Plain)]
                 /\ ~CarriesHandshake(m) => h = NoHandshake
                 /\ link' = Popped("server")
    BY <1>6, <1>17 DEF OnRecvNodePing, ToServer
  <2>2. PICK x : x = Message("pong", h, TRUE, Plain)
    OBVIOUS
  <2>3. x \in Carriers => m \in Carriers
    BY <1>7, <2>1, <2>2 DEF Carriers, Message, NoHandshake, CarriesHandshake
  <2>4. answer'["server"] = x
    BY <1>3, <2>1, <2>2
  <2>5. Weight(x) \in Nat /\ Weight(x) <= Weight(m)
    BY <2>3 DEF Weight
  <2> QED BY <1>15, <2>1, <2>4, <2>5
<1>18. CASE OnRecvNodeRegisterReq
  <2> DEFINE denial == Message("register_rsp", NoHandshake, FALSE, Plain)
  <2>1. Server.kxUsed = NoKx
    <3>1. m \in Registers
      BY <1>6, <1>7, <1>18 DEF OnRecvNodeRegisterReq, Receives, Registers, ToServer
    <3>2. Has(ToServer, Registers)
      BY <1>3, <1>5, <1>6, <3>1, TailHas
    <3> QED BY <3>2 DEF Flow, Opening
  <2>2. \/ \E h : /\ answer' = [answer EXCEPT !["server"] = Message("register_rsp", h, TRUE, Plain)]
                  /\ ~CarriesHandshake(m) => h = NoHandshake
                  /\ link' = Popped("server")
        \/ /\ link' = [Popped("server") EXCEPT !["client"] = @ \o <<denial, denial>>]
           /\ answer' = answer
    BY <1>6, <1>18, <2>1 DEF OnRecvNodeRegisterReq, ToServer, Server, GetCryptoKeyExchangeAlgorithm
  <2>3. denial \in AnyMessage /\ denial \notin Carriers
    BY ConstantFacts DEF Message, NoHandshake, AnyMessage, Kinds, Carriers, CarriesHandshake
  <2> HIDE DEF denial
  <2>4. CASE \E h : /\ answer' = [answer EXCEPT !["server"] = Message("register_rsp", h, TRUE, Plain)]
                    /\ ~CarriesHandshake(m) => h = NoHandshake
                    /\ link' = Popped("server")
    <3>1. PICK h : /\ answer' = [answer EXCEPT !["server"] = Message("register_rsp", h, TRUE, Plain)]
                   /\ ~CarriesHandshake(m) => h = NoHandshake
                   /\ link' = Popped("server")
      BY <2>4
    <3>2. PICK x : x = Message("register_rsp", h, TRUE, Plain)
      OBVIOUS
    <3>3. x \in Carriers => m \in Carriers
      BY <1>7, <3>1, <3>2 DEF Carriers, Message, NoHandshake, CarriesHandshake
    <3>4. answer'["server"] = x
      BY <1>3, <3>1, <3>2
    <3>5. Weight(x) \in Nat /\ Weight(x) <= Weight(m)
      BY <3>3 DEF Weight
    <3> QED BY <1>15, <3>1, <3>4, <3>5
  <2>5. CASE /\ link' = [Popped("server") EXCEPT !["client"] = @ \o <<denial, denial>>]
             /\ answer' = answer
    <3>1. PICK r : r = Append(ToClient, denial)
      OBVIOUS
    <3>2. r \in Seq(AnyMessage)
      BY <1>3, <2>3, <3>1, LinkAppend
    <3>3. ToServer' = Tail(ToServer) /\ ToClient' = Append(r, denial)
      <4>1. ToServer' = Tail(ToServer) /\ ToClient' = ToClient \o <<denial, denial>>
        BY <1>3, <2>5 DEF Popped, ToServer, ToClient
      <4>2. ToClient \o <<denial, denial>> = Append(Append(ToClient, denial), denial)
        BY <1>3, <2>3
      <4> QED BY <3>1, <4>1, <4>2
    <3>4. Weight(denial) = 0
      BY <2>3, WeightFacts
    <3>5. Counts(r, b + Weight(denial))
      BY <1>1, <1>3, <2>3, <3>1, CountsAppend
    <3>6. Counts(r, b)
      BY <3>4, <3>5
    <3>7. Counts(ToClient', b + Weight(denial))
      BY <2>3, <3>2, <3>3, <3>6, CountsAppend
    <3>8. Counts(ToClient', b) /\ Counts(ToServer', k)
      BY <1>10, <3>3, <3>4, <3>7
    <3>9. Client'.seq + k + b + Weight(ping') + Weight(answer'["server"]) <= 2 * used'.keys
      BY <1>2, <1>5, <1>14, <1>13, <2>5
    <3> QED BY <3>8, <3>9, Affordable
  <2> QED BY <2>2, <2>4, <2>5
<1> QED BY <1>16, <1>17, <1>18

\* The client takes a sequence for a confirmation only when it has read an answer
\* that carries a handshake.
LEMMA ClientReadBudget ==
  ASSUME TypesOK, Flow, BudgetInv, OnRecvNodeRegisterRsp \/ OnRecvNodePong
  PROVE  BudgetInv'
<1>1. PICK a \in Nat, b \in Nat :
        /\ Counts(ToServer, a) /\ Counts(ToClient, b)
        /\ Client.seq + a + b + Weight(ping) + Weight(answer["server"]) <= 2 * used.keys
  BY DEF BudgetInv
<1>2. /\ Client.seq \in Nat /\ used.keys \in Nat /\ Weight(ping) \in Nat
      /\ Weight(answer["server"]) \in Nat
  BY BudgetTypes
<1>3. /\ Client \in AnyContext /\ ctx \in [Ends -> AnyContext] /\ "client" \in Ends /\ "server" \in Ends
      /\ ToClient \in Seq(AnyMessage) /\ allow["client"] \in SUBSET Algs
      /\ answer \in [Ends -> AnyMessage]
  BY PartTypes, EndsFacts DEF TypesOK
<1>4. PICK m : m = Head(ToClient)
  OBVIOUS
<1>5. PICK kind \in {"register_rsp", "pong"} :
        /\ Receives("client", kind) /\ ping' = ping /\ used' = used /\ link' = Popped("client")
        /\ (CarriesHandshake(m) /\ ClientNegotiate(m)) \/ (ctx' = ctx /\ answer' = answer)
  BY <1>4 DEF OnRecvNodeRegisterRsp, OnRecvNodePong, ToClient
<1>6. ToClient # <<>> /\ ToClient' = Tail(ToClient) /\ ToServer' = ToServer
  BY <1>5, LinksPopped
<1>7. m \in AnyMessage
  BY <1>3, <1>4, <1>6, LinkTail
<1>8. PICK k \in Nat : Counts(ToClient', k) /\ b = k + Weight(m)
  BY <1>1, <1>3, <1>4, <1>6, CountsTail
<1>9. Weight(m) \in Nat
  BY WeightFacts
<1>10. ASSUME Client'.seq <= Client.seq + Weight(m), Client'.seq \in Nat,
              answer'["server"] = answer["server"]
       PROVE  BudgetInv'
  <2>1. Client'.seq + a + k + Weight(ping') + Weight(answer'["server"]) <= 2 * used'.keys
    BY <1>1, <1>2, <1>5, <1>8, <1>9, <1>10
  <2> QED BY <1>1, <1>6, <1>8, <2>1, Affordable
<1>11. CASE ctx' = ctx /\ answer' = answer
  <2>1. Client' = Client
    BY <1>11 DEF Client
  <2> QED BY <1>2, <1>9, <1>10, <1>11, <2>1
<1>12. CASE CarriesHandshake(m) /\ ClientNegotiate(m)
  <2>1. PICK c, hs, allowed : c = Client /\ hs = m.hs /\ allowed = allow["client"]
    OBVIOUS
  <2>2. PICK u : u = HandshakeReadPeerKey(c, hs, allowed, FALSE)
    OBVIOUS
  <2>3. PICK d : d = GetNextSequence(u)
    OBVIOUS
  <2>4. /\ ctx' = [ctx EXCEPT !["client"] = d]
        /\ answer' = [answer EXCEPT !["client"] = Message("confirm", hs, TRUE, Plain)]
    BY <1>12, <2>1, <2>2, <2>3 DEF ClientNegotiate, Client
  <2>5. c \in AnyContext /\ hs \in AnyHandshake /\ allowed \in SUBSET Algs
    BY <1>3, <1>7, <2>1 DEF AnyMessage
  <2>6. u \in AnyContext /\ u.seq = c.seq
    BY <2>2, <2>5, ReplaceFacts
  <2>7. d.seq = u.seq + 1
    BY <2>3, <2>6, NextSequenceFacts
  <2>8. Client' = d /\ answer'["server"] = answer["server"]
    BY <1>3, <2>4 DEF Client
  <2>9. Weight(m) = 1
    BY <1>7, <1>12, WeightFacts DEF Carriers
  <2> QED BY <1>2, <1>10, <2>1, <2>6, <2>7, <2>8, <2>9
<1> QED BY <1>5, <1>11, <1>12

\* Every step keeps within two sequences for each key pair.
LEMMA NextBudget ==
  ASSUME TypesOK, Flow, BudgetInv, [Next]_vars
  PROVE  BudgetInv'
<1>1. "client" \in Ends
  BY EndsFacts
<1>2. CASE SendRegister \/ SendPing
  BY <1>2, StartBudget
<1>3. CASE OnRecvNodeRegisterReq \/ OnRecvNodePing \/ OnRecvHandshakeConfirm
  BY <1>3, ServerReadBudget
<1>4. CASE OnRecvNodeRegisterRsp \/ OnRecvNodePong
  BY <1>4, ClientReadBudget
<1>5. CASE PushPing \/ UNCHANGED vars
  BY <1>1, <1>5, StillBudget
<1>6. ASSUME NEW e \in Ends, PushAnswer(e) \/ RefuseAnswer(e) \/ PackData(e) \/ PushData(e)
                               \/ OnRecvData(e) \/ ReloadCrypto(e)
      PROVE  BudgetInv'
  BY <1>6, StillBudget
<1> QED BY <1>2, <1>3, <1>4, <1>5, <1>6 DEF Next

\* The inductive invariant of the types.
BoundedInv ==
    /\ HandshakeInv /\ FaultsInv /\ SmallContexts /\ SmallLinks /\ BudgetInv

\* It holds at the start.
LEMMA InitBounded == Init => BoundedInv
<1> SUFFICES ASSUME Init PROVE BoundedInv
  OBVIOUS
<1>1. HandshakeInv
  BY InitNumbered, InitHandshakes DEF HandshakeInv
<1>2. FaultsInv /\ SmallContexts /\ SmallLinks /\ Client.seq <= 2 * used.keys
  BY InitFaults, InitSmall
<1>3. /\ ToServer = <<>> /\ ToClient = <<>> /\ ping = Nothing /\ answer["server"] = Nothing
  BY EndsFacts DEF Init, ToServer, ToClient
<1>4. Client.seq \in Nat /\ used.keys \in Nat
  BY <1>1, SessionTypes, BudgetTypes DEF HandshakeInv
<1>5. Client.seq + 0 + 0 + Weight(ping) + Weight(answer["server"]) <= 2 * used.keys
  BY <1>2, <1>3, <1>4, WeightFacts
<1>6. BudgetInv
  BY <1>3, <1>5, CountsEmpty DEF BudgetInv
<1> QED BY <1>1, <1>2, <1>6 DEF BoundedInv

\* Every step keeps it.
LEMMA NextBounded == BoundedInv /\ [Next]_vars => BoundedInv'
<1> SUFFICES ASSUME BoundedInv, [Next]_vars PROVE BoundedInv'
  OBVIOUS
<1>1. HandshakeInv /\ FaultsInv /\ SmallContexts /\ SmallLinks /\ BudgetInv
  BY DEF BoundedInv
<1>2. SessionInv /\ Flow /\ TypesOK
  BY <1>1, SessionTypes DEF HandshakeInv
<1>3. HandshakeInv'
  BY <1>1, NextHandshakes
<1>4. FaultsInv'
  BY <1>1, <1>2, NextFaults
<1>5. SmallContexts' /\ SmallLinks'
  BY <1>1, <1>2, NextSmall
<1>6. BudgetInv'
  BY <1>1, <1>2, NextBudget
<1> QED BY <1>3, <1>4, <1>5, <1>6 DEF BoundedInv

\* A message in range that is not ahead of n sequences is one IsMessage admits.
LEMMA BoundedMessages ==
  ASSUME NEW n \in Nat, n <= 2 * MaxKeys, NEW m \in SmallMessages, m \in Upto(n)
  PROVE  IsMessage(m)
<1>1. /\ m \in AnyMessage /\ m.hs \in AnyHandshake /\ m.hs.algs \subseteq Algs /\ m.hs.pub \in KeyPairs
      /\ m.cipher \in Ciphers /\ m.hs.seq <= n
  BY DEF SmallMessages, SmallHandshake, Upto
<1>2. m.hs.seq \in 0..2 * MaxKeys
  <2>1. m.hs.seq \in Nat /\ MaxKeys \in Nat
    BY <1>1, SmallConstants DEF AnyHandshake
  <2> QED BY <1>1, <2>1
<1>3. m.hs \in Handshakes
  BY <1>1, <1>2 DEF AnyHandshake, AnyKx, Handshakes
<1> QED BY <1>1, <1>3 DEF AnyMessage, IsMessage

\* It has the types.
LEMMA BoundedTypes == BoundedInv => TypeOK
<1> SUFFICES ASSUME BoundedInv PROVE TypeOK
  OBVIOUS
<1>1. HandshakeInv /\ FaultsInv /\ SmallContexts /\ SmallLinks /\ BudgetInv
  BY DEF BoundedInv
<1>2. SessionInv /\ Flow /\ TypesOK /\ NoneAhead
  BY <1>1, SessionTypes, SessionNoneAhead DEF HandshakeInv
<1>3. PICK n \in Nat : n = Client.seq
  BY <1>2, BudgetTypes
<1>4. MaxKeys \in Nat /\ n <= 2 * MaxKeys
  <2>1. PICK a \in Nat, b \in Nat :
          n + a + b + Weight(ping) + Weight(answer["server"]) <= 2 * used.keys
    BY <1>1, <1>3 DEF BudgetInv
  <2>2. used.keys \in Nat /\ used.keys <= MaxKeys /\ MaxKeys \in Nat
        /\ Weight(ping) \in Nat /\ Weight(answer["server"]) \in Nat
    BY <1>1, <1>2, BudgetTypes, SmallConstants DEF SmallContexts
  <2> QED BY <2>1, <2>2
<1>5. /\ link \in [Ends -> Seq(Upto(n))] /\ answer \in [Ends -> Upto(n)]
      /\ ping \in Upto(n) /\ packed \in [Ends -> Upto(n)]
      /\ link \in [Ends -> Seq(SmallMessages)] /\ answer \in [Ends -> SmallMessages]
      /\ ping \in SmallMessages /\ packed \in [Ends -> SmallMessages]
  BY <1>1, <1>2, <1>3 DEF NoneAhead, SmallLinks
<1>6. \A m \in SmallMessages : m \in Upto(n) => IsMessage(m)
  BY <1>4, BoundedMessages
<1>7. IsMessage(ping) /\ \A e \in Ends : IsMessage(answer[e]) /\ IsMessage(packed[e])
  BY <1>5, <1>6
<1>8. ASSUME NEW e \in Ends, NEW i \in DOMAIN link[e] PROVE IsMessage(link[e][i])
  <2>1. link[e] \in Seq(Upto(n)) /\ link[e] \in Seq(SmallMessages)
    BY <1>5
  <2>2. link[e][i] \in Upto(n) /\ link[e][i] \in SmallMessages
    BY <1>8, <2>1
  <2> QED BY <1>6, <2>2
<1>9. ASSUME NEW e \in Ends
      PROVE  /\ SmallContext(ctx[e]) /\ ctx[e].hsSeq <= n /\ ctx[e].seq <= n
  BY <1>1, <1>3 DEF SmallContexts, Ends, Client, Server
<1>10. ASSUME NEW e \in Ends
       PROVE  /\ ctx[e].read \in Ciphers /\ ctx[e].write \in Ciphers /\ ctx[e].staged \in Ciphers
              /\ ctx[e].pending \in BOOLEAN /\ ctx[e].self \in KeyPairs
              /\ ctx[e].hsSeq \in 0..2 * MaxKeys /\ ctx[e].seq \in 0..2 * MaxKeys
              /\ {ctx[e].kx, ctx[e].kxUsed} \subseteq KeyExchanges \cup {NoKx}
              /\ ctx[e].staged # Plain => ctx[e].pending
  <2>1. PICK c : c = ctx[e]
    OBVIOUS
  <2>2. SmallContext(c) /\ c.hsSeq <= n /\ c.seq <= n
    BY <1>9, <2>1
  <2>3. /\ c.read \in Ciphers /\ c.write \in Ciphers /\ c.staged \in Ciphers
        /\ c.pending \in BOOLEAN /\ c.self \in KeyPairs /\ c.hsSeq \in Nat /\ c.seq \in Nat
        /\ {c.kx, c.kxUsed} \subseteq KeyExchanges \cup {NoKx} /\ (c.staged # Plain => c.pending)
    BY <2>2 DEF SmallContext, AnyContext, AnyKx
  <2>4. c.hsSeq \in 0..2 * MaxKeys /\ c.seq \in 0..2 * MaxKeys
    BY <1>4, <2>2, <2>3
  <2> QED BY <2>1, <2>3, <2>4
<1>11. ASSUME NEW e \in Ends
       PROVE  phase[e] \in Phases /\ faults[e] \in 0..FaultTolerant /\ allow[e] \subseteq Algs
  BY <1>1, <1>2 DEF Flow, FaultsInv, TypesOK
<1>12. /\ garbled \in BOOLEAN /\ spoiled \in BOOLEAN
       /\ causes \subseteq {"overlap", "refused", "reload", "window", "stale"}
  BY <1>1, <1>2 DEF Flow, FaultsInv
<1> QED BY <1>7, <1>8, <1>10, <1>11, <1>12 DEF TypeOK

\* The two contexts and every message on the way are well typed: a receive cipher
\* is staged only while a confirmation is pending, faults stay within the limit,
\* and the client takes at most two sequences for a key pair however handshakes
\* overlap and messages are refused, since only an answer that carries a handshake
\* makes it take the second (GetNextSequence in SendHandshakeConfirm).
THEOREM SessionTypeOK == Spec => []TypeOK
<1>1. BoundedInv => TypeOK
  BY BoundedTypes
<1> QED BY <1>1, InitBounded, NextBounded, PTL DEF Spec
=============================================================================
