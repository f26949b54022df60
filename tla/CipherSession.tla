--------------------------- MODULE CipherSession ---------------------------
(***************************************************************************)
(* The ciphers of one connection: the two ConnectionContext objects at its *)
(* ends and the messages that set and change their keys.                   *)
(*                                                                         *)
(*   Client                                  Server                        *)
(*     | -- register / ping (public key) ------> |  new write cipher,      *)
(*     |                                         |  new read cipher staged *)
(*     | <-- register_rsp / pong (public key) -- |                         *)
(*     |  new write and read cipher              |                         *)
(*     | -- handshake_confirm -----------------> |  staged cipher read     *)
(*                                                                         *)
(* Each end has a readLoop goroutine that runs the receive handlers, an    *)
(* application goroutine that sends data, and the client has the goroutine *)
(* of Poll, which sends the pings. A handler that changes a cipher and     *)
(* announces the change does so in two steps, and so does every sender     *)
(* that packs a message and then pushes it: the other goroutines of the    *)
(* same end run between them.                                              *)
(*                                                                         *)
(* The connection delivers what was pushed in order (IoStreamConnection).  *)
(***************************************************************************)
EXTENDS Integers, Sequences

CONSTANTS
    KeyExchanges,   \* the supported ECDH curves
    NoKx,           \* ATBUS_CRYPTO_KEY_EXCHANGE_NONE
    NumAlgs,        \* ciphers are numbered 1..NumAlgs in order of preference
    FaultTolerant,  \* the configured number of tolerated faults
    MaxKeys,        \* bound: key pairs generated by the client
    MaxData,        \* bound: data messages packed, at both ends together
    MaxRefused,     \* bound: pushes refused by the channel
    MaxReloads      \* bound: calls of ReloadCrypto

ASSUME CipherAssumption ==
    /\ NoKx \notin KeyExchanges
    /\ NumAlgs \in Nat \ {0}
    /\ FaultTolerant \in Nat \ {0}
    /\ MaxKeys \in Nat \ {0} /\ MaxData \in Nat /\ MaxRefused \in Nat /\ MaxReloads \in Nat

VARIABLES
    ctx,        \* the ConnectionContext of each end
    phase,      \* how far each end has come with the registration
    link,       \* link[e]: messages pushed to e and not yet read, in order
    answer,     \* answer[e]: what e's readLoop is about to push
    ping,       \* what the client's Poll is about to push
    packed,     \* packed[e]: what e's application goroutine is about to push
    faults,     \* consecutive faults counted at each end
    allow,      \* CryptoAllowAlgorithms of the node at each end
    used,       \* what is used up of the bounds
    garbled,    \* history: a message was received and not decrypted
    causes,     \* history: what disturbed a change of keys so far
    spoiled     \* history: the current handshake was disturbed

vars == <<ctx, phase, link, answer, ping, packed, faults, allow, used,
          garbled, causes, spoiled>>

Ends == {"client", "server"}
Peer(e) == IF e = "client" THEN "server" ELSE "client"

Algs == 1..NumAlgs
NoneAlg == 0

----------------------------------------------------------------------------
(* Ciphers, handshake data and messages.                                   *)

\* A CryptoSession with a key. A session that is not initialized and one
\* whose algorithm is NONE behave the same: they encrypt and decrypt nothing.
\* HKDF(ECDH(a, B)) = HKDF(ECDH(b, A)): the key is the pair of key pairs.
KeyPairs == 0..2 * MaxKeys
Plain == [alg |-> NoneAlg, key |-> {}]
PresetCipher == [alg |-> 1, key |-> {0}]
Ciphers == [alg : Algs, key : SUBSET KeyPairs] \cup {Plain}

\* CryptoHandshakeData; a message without it reads as sequence 0.
NoHandshake == [seq |-> 0, kx |-> NoKx, algs |-> {}, pub |-> 0]

Message(kind, hs, ok, cipher) ==
    [kind |-> kind, hs |-> hs, ok |-> ok, cipher |-> cipher]
Nothing == Message("nothing", NoHandshake, TRUE, Plain)
Data(cipher) == Message("data", NoHandshake, TRUE, cipher)

\* The handlers negotiate only when the sequence and the type are there.
CarriesHandshake(m) ==
    /\ m.kind \in {"register", "register_rsp", "ping", "pong"}
    /\ m.hs.seq # 0
    /\ m.hs.kx # NoKx

----------------------------------------------------------------------------
(* ConnectionContext: its operations as functions of the context.          *)

NewConnectionContext(kx) ==
    [read |-> Plain, write |-> Plain, staged |-> Plain, pending |-> FALSE,
     self |-> 0, kx |-> kx, kxUsed |-> NoKx, hsSeq |-> 0, seq |-> 0]

GetCryptoSelectAlgorithm(c) == c.write.alg

\* The key exchange of the last generated key pair, not the configured one.
GetCryptoKeyExchangeAlgorithm(c) == c.kxUsed

CanGenerate(c) == c.kx # NoKx

\* The sequence is taken before the key pair is generated, which may fail.
HandshakeGenerateSelfKey(c, peerSeq, pair) ==
    LET sequenced == [c EXCEPT !.seq = IF peerSeq = 0 THEN @ + 1 ELSE @,
                               !.hsSeq = IF peerSeq = 0 THEN c.seq + 1 ELSE peerSeq]
    IN  IF CanGenerate(c)
        THEN [sequenced EXCEPT !.self = pair, !.kxUsed = c.kx]
        ELSE sequenced

NegotiateCryptoAlgorithm(local, remote) ==
    IF local \cap remote = {} THEN NoneAlg
    ELSE CHOOSE a \in local \cap remote : \A b \in local \cap remote : a <= b

CanRead(c, hs) == hs.kx = c.kx

DerivedCipher(c, hs, allowed) ==
    LET alg == NegotiateCryptoAlgorithm(allowed, hs.algs)
    IN  IF alg = NoneAlg THEN Plain ELSE [alg |-> alg, key |-> {c.self, hs.pub}]

\* Mutant: the receive cipher is replaced without waiting for the confirmation.
HandshakeReadPeerKeyAtOnce(c, hs, allowed, needConfirm) ==
    LET cipher == DerivedCipher(c, hs, allowed)
    IN  IF ~CanRead(c, hs) THEN c
        ELSE [c EXCEPT !.write = cipher, !.read = cipher, !.pending = needConfirm,
                       !.staged = IF needConfirm THEN cipher ELSE @]

\* Mutant: the client changes its write cipher only.
HandshakeReadPeerKeyWriteOnly(c, hs, allowed, needConfirm) ==
    LET cipher == DerivedCipher(c, hs, allowed)
    IN  IF ~CanRead(c, hs) THEN c
        ELSE IF needConfirm
             THEN [c EXCEPT !.write = cipher, !.staged = cipher, !.pending = TRUE]
             ELSE [c EXCEPT !.write = cipher]

HandshakeReadPeerKey(c, hs, allowed, needConfirm) ==
    LET cipher == DerivedCipher(c, hs, allowed)
    IN  IF ~CanRead(c, hs) THEN c
        ELSE IF needConfirm
             THEN [c EXCEPT !.write = cipher, !.staged = cipher, !.pending = TRUE]
             ELSE [c EXCEPT !.write = cipher, !.read = cipher]

HandshakeWriteSelfPublicKey(c, algs) ==
    IF c.self = 0 THEN NoHandshake
    ELSE [seq |-> c.hsSeq, kx |-> c.kx, algs |-> algs, pub |-> c.self]

\* Mutant: the staged cipher is not cleared.
ConfirmHandshakeKeepsStaged(c, seq) ==
    IF c.hsSeq # seq \/ ~c.pending THEN c
    ELSE [c EXCEPT !.read = c.staged, !.pending = FALSE]

\* Mutant: any confirmation confirms what is pending.
ConfirmHandshakeAnySequence(c, seq) ==
    IF ~c.pending THEN c
    ELSE [c EXCEPT !.read = c.staged, !.staged = Plain, !.pending = FALSE]

ConfirmHandshake(c, seq) ==
    IF c.hsSeq # seq \/ ~c.pending THEN c
    ELSE [c EXCEPT !.read = c.staged, !.staged = Plain, !.pending = FALSE]

GetNextSequence(c) == [c EXCEPT !.seq = @ + 1]

\* The server sends back the algorithm it selected.
Selected(c) ==
    IF GetCryptoSelectAlgorithm(c) = NoneAlg THEN {} ELSE {GetCryptoSelectAlgorithm(c)}

PackMessage(c) == Data(c.write)

UnpackSucceeds(c, m) == m.cipher.alg = NoneAlg \/ m.cipher = c.read

----------------------------------------------------------------------------
(* Bookkeeping shared by the actions.                                      *)

\* The first message e has not read. Its readLoop is not inside a handler
\* and the connection was not reset.
Receives(e, kind) ==
    /\ phase[e] # "reset"
    /\ answer[e] = Nothing
    /\ link[e] # <<>>
    /\ Head(link[e]).kind = kind

Popped(e) == [link EXCEPT ![e] = Tail(@)]
PushedTo(e, m) == [link EXCEPT ![e] = Append(@, m)]

\* A handler that succeeds clears the faults, one that fails adds one.
Cleared(e) == [faults EXCEPT ![e] = 0]

\* addEndpointFault and addConnectionFault: with one connection to the
\* endpoint both counters are equal.
AddFault(e) ==
    /\ faults' = [faults EXCEPT ![e] = @ + 1]
    /\ phase' = IF faults[e] + 1 >= FaultTolerant THEN [phase EXCEPT ![e] = "reset"]
                ELSE phase

InFlight(P(_)) == \E e \in Ends : \E i \in DOMAIN link[e] : P(link[e][i])
IsConfirm(m) == m.kind = "confirm"

\* A handshake the client started is still being answered: the client has
\* not yet pushed its confirmation.
Outstanding ==
    \/ InFlight(CarriesHandshake)
    \/ CarriesHandshake(ping)
    \/ CarriesHandshake(answer["server"])
    \/ answer["client"] # Nothing

----------------------------------------------------------------------------
(* Registration.                                                           *)

\* The application may have set both keys by hand, or have generated a key
\* pair in the OnNewConnection callback, which runs before SendRegister.
Init ==
    /\ \E kx \in [Ends -> KeyExchanges \cup {NoKx}], preset, primed \in BOOLEAN :
         LET fresh(e) == [NewConnectionContext(kx[e]) EXCEPT
                            !.read = IF preset THEN PresetCipher ELSE Plain,
                            !.write = IF preset THEN PresetCipher ELSE Plain]
         IN  /\ ctx = [e \in Ends |-> IF primed /\ e = "client"
                                      THEN HandshakeGenerateSelfKey(fresh(e), 0, 1)
                                      ELSE fresh(e)]
             /\ used = [keys |-> IF primed THEN 1 ELSE 0,
                        data |-> 0, refused |-> 0, reloads |-> 0]
    /\ phase = [e \in Ends |-> "new"]
    /\ link = [e \in Ends |-> <<>>]
    /\ answer = [e \in Ends |-> Nothing]
    /\ ping = Nothing
    /\ packed = [e \in Ends |-> Nothing]
    /\ faults = [e \in Ends |-> 0]
    /\ allow = [e \in Ends |-> Algs]
    /\ garbled = FALSE
    /\ causes = {}
    /\ spoiled = FALSE

\* SendRegister as the client's OnNewConnection calls it.
SendRegister ==
    /\ phase["client"] = "new"
    /\ LET c == ctx["client"]
           offers == GetCryptoKeyExchangeAlgorithm(c) # NoKx
           made == HandshakeGenerateSelfKey(c, 0, used.keys + 1)
           hs == IF offers THEN HandshakeWriteSelfPublicKey(made, allow["client"])
                 ELSE NoHandshake
       IN  /\ offers => used.keys < MaxKeys
           /\ ctx' = IF offers THEN [ctx EXCEPT !["client"] = made] ELSE ctx
           /\ used' = IF offers THEN [used EXCEPT !.keys = @ + 1] ELSE used
           /\ link' = PushedTo("server", Message("register", hs, TRUE, Plain))
    /\ phase' = [phase EXCEPT !["client"] = "registering"]
    /\ UNCHANGED <<answer, ping, packed, faults, allow, garbled, causes, spoiled>>

\* What the server's handlers do with handshake data: a key pair of its own
\* and, unless the key exchange differs, the peer's key. The fresh key pair
\* is numbered after the one it answers.
ServerNegotiate(c, hs) ==
    LET made == HandshakeGenerateSelfKey(c, hs.seq, MaxKeys + hs.pub)
    IN  IF CanGenerate(c) THEN HandshakeReadPeerKey(made, hs, allow["server"], TRUE)
        ELSE made

ServerAccepts(c, hs) == CanGenerate(c) /\ CanRead(c, hs)

\* The access token is checked first, then the handshake, then the rest of
\* acceptNodeRegistration. A refused registration is answered twice, and
\* without handshake data.
OnRecvNodeRegisterReq ==
    /\ Receives("server", "register")
    /\ \E token, accepted \in BOOLEAN :
         LET m == Head(link["server"])
             c == ctx["server"]
             negotiates == token /\ CarriesHandshake(m)
             after == IF negotiates THEN ServerNegotiate(c, m.hs) ELSE c
             hs == IF GetCryptoKeyExchangeAlgorithm(after) # NoKx
                   THEN HandshakeWriteSelfPublicKey(after, Selected(after))
                   ELSE NoHandshake
             denial == Message("register_rsp", NoHandshake, FALSE, Plain)
         IN  /\ ctx' = [ctx EXCEPT !["server"] = after]
             /\ IF token /\ accepted /\ (negotiates => ServerAccepts(c, m.hs))
                THEN /\ phase' = [phase EXCEPT !["server"] = "registered"]
                     /\ answer' = [answer EXCEPT !["server"] =
                                     Message("register_rsp", hs, TRUE, Plain)]
                     /\ link' = Popped("server")
                ELSE /\ link' = [Popped("server") EXCEPT !["client"] = @ \o <<denial, denial>>]
                     /\ UNCHANGED <<phase, answer>>
    /\ UNCHANGED <<ping, packed, faults, allow, used, garbled, causes, spoiled>>

\* The server's list of algorithms was the one it selected, but the client
\* negotiates again with the algorithms it allows now.
ChoiceLost(c, hs) ==
    CanRead(c, hs) /\ hs.algs # {} /\ NegotiateCryptoAlgorithm(allow["client"], hs.algs) = NoneAlg

\* Mutant: the confirmation carries its message's sequence, not the handshake's.
ClientNegotiateHeadSequence(m) ==
    LET c == ctx["client"]
        confirm == Message("confirm", [m.hs EXCEPT !.seq = c.seq + 1], TRUE, Plain)
    IN  /\ ctx' = [ctx EXCEPT !["client"] =
                     GetNextSequence(HandshakeReadPeerKey(c, m.hs, allow["client"], FALSE))]
        /\ answer' = [answer EXCEPT !["client"] = confirm]
        /\ causes' = IF ChoiceLost(c, m.hs) THEN causes \cup {"reload"} ELSE causes
        /\ spoiled' = (spoiled \/ ChoiceLost(c, m.hs))

\* What the client does with the server's key: both ciphers at once, then
\* the confirmation, whose message takes a sequence of its own.
ClientNegotiate(m) ==
    LET c == ctx["client"]
        confirm == Message("confirm", m.hs, TRUE, Plain)
    IN  /\ ctx' = [ctx EXCEPT !["client"] =
                     GetNextSequence(HandshakeReadPeerKey(c, m.hs, allow["client"], FALSE))]
        /\ answer' = [answer EXCEPT !["client"] = confirm]
        /\ causes' = IF ChoiceLost(c, m.hs) THEN causes \cup {"reload"} ELSE causes
        /\ spoiled' = (spoiled \/ ChoiceLost(c, m.hs))

\* A denial, and a key that cannot be read, reset the connection.
OnRecvNodeRegisterRsp ==
    /\ Receives("client", "register_rsp")
    /\ LET m == Head(link["client"])
           fails == ~m.ok \/ (CarriesHandshake(m) /\ ~CanRead(ctx["client"], m.hs))
       IN  IF fails
           THEN /\ phase' = [phase EXCEPT !["client"] = "reset"]
                /\ UNCHANGED <<ctx, answer, causes, spoiled>>
           ELSE IF CarriesHandshake(m)
                THEN ClientNegotiate(m) /\ UNCHANGED phase
                ELSE /\ phase' = [phase EXCEPT !["client"] = "registered"]
                     /\ UNCHANGED <<ctx, answer, causes, spoiled>>
    /\ link' = Popped("client")
    /\ faults' = Cleared("client")
    /\ UNCHANGED <<ping, packed, allow, used, garbled>>

----------------------------------------------------------------------------
(* Key refresh through ping and pong.                                      *)

\* SendPing of a client whose keys are due for a refresh: a new key pair,
\* also when an earlier ping is not answered yet.
SendPing ==
    /\ phase["client"] = "registered"
    /\ ping = Nothing
    /\ GetCryptoSelectAlgorithm(ctx["client"]) # NoneAlg
    /\ used.keys < MaxKeys
    /\ LET c == ctx["client"]
           made == HandshakeGenerateSelfKey(c, 0, used.keys + 1)
           hs == IF CanGenerate(c) THEN HandshakeWriteSelfPublicKey(made, allow["client"])
                 ELSE NoHandshake
       IN  /\ ctx' = [ctx EXCEPT !["client"] = made]
           /\ ping' = Message("ping", hs, TRUE, Plain)
    /\ used' = [used EXCEPT !.keys = @ + 1]
    /\ causes' = IF Outstanding THEN causes \cup {"overlap"} ELSE causes
    /\ spoiled' = (Outstanding \/ (spoiled /\ InFlight(IsConfirm)))
    /\ UNCHANGED <<phase, link, answer, packed, faults, allow, garbled>>

\* Push may refuse the ping: pingEndpoint logs it and waits for the next one.
PushPing ==
    /\ ping # Nothing
    /\ ping' = Nothing
    /\ \/ /\ link' = PushedTo("server", ping)
          /\ UNCHANGED used
       \/ /\ used.refused < MaxRefused
          /\ used' = [used EXCEPT !.refused = @ + 1]
          /\ UNCHANGED link
    /\ UNCHANGED <<ctx, phase, answer, packed, faults, allow, garbled, causes, spoiled>>

\* A failed negotiation is only logged; the pong then has no handshake data.
OnRecvNodePing ==
    /\ Receives("server", "ping")
    /\ LET m == Head(link["server"])
           c == ctx["server"]
           negotiates == CarriesHandshake(m) /\ phase["server"] = "registered"
           after == IF negotiates THEN ServerNegotiate(c, m.hs) ELSE c
           hs == IF negotiates /\ ServerAccepts(c, m.hs)
                 THEN HandshakeWriteSelfPublicKey(after, Selected(after))
                 ELSE NoHandshake
       IN  /\ ctx' = [ctx EXCEPT !["server"] = after]
           /\ answer' = [answer EXCEPT !["server"] = Message("pong", hs, TRUE, Plain)]
    /\ link' = Popped("server")
    /\ UNCHANGED <<phase, ping, packed, faults, allow, used, garbled, causes, spoiled>>

\* The handshake data of a pong is not compared with the client's own
\* sequence: the last generated key pair is used.
OnRecvNodePong ==
    /\ Receives("client", "pong")
    /\ LET m == Head(link["client"])
       IN  IF /\ CarriesHandshake(m)
              /\ GetCryptoSelectAlgorithm(ctx["client"]) # NoneAlg
              /\ CanRead(ctx["client"], m.hs)
           THEN ClientNegotiate(m)
           ELSE UNCHANGED <<ctx, answer, causes, spoiled>>
    /\ link' = Popped("client")
    /\ faults' = Cleared("client")
    /\ UNCHANGED <<phase, ping, packed, allow, used, garbled>>

OnRecvHandshakeConfirm ==
    /\ Receives("server", "confirm")
    /\ ctx' = [ctx EXCEPT !["server"] = ConfirmHandshake(@, Head(link["server"]).hs.seq)]
    /\ link' = Popped("server")
    /\ faults' = Cleared("server")
    /\ UNCHANGED <<phase, answer, ping, packed, allow, used, garbled, causes, spoiled>>

\* The second half of a handler: its answer is pushed. The client's endpoint
\* is only usable once the confirmation of its registration is out.
PushAnswer(e) ==
    /\ answer[e] # Nothing
    /\ link' = PushedTo(Peer(e), answer[e])
    /\ answer' = [answer EXCEPT ![e] = Nothing]
    /\ phase' = IF e = "client" THEN [phase EXCEPT ![e] = "registered"] ELSE phase
    /\ faults' = Cleared(e)
    /\ UNCHANGED <<ctx, ping, packed, allow, used, garbled, causes, spoiled>>

\* Push refuses the answer. A refused register_rsp resets the connection, a
\* refused pong counts as a fault and a refused confirmation is not noticed;
\* the ciphers have changed all the same.
RefuseAnswer(e) ==
    /\ answer[e] # Nothing
    /\ used.refused < MaxRefused
    /\ used' = [used EXCEPT !.refused = @ + 1]
    /\ answer' = [answer EXCEPT ![e] = Nothing]
    /\ CASE answer[e].kind = "register_rsp" ->
              /\ phase' = [phase EXCEPT ![e] = "reset"]
              /\ UNCHANGED faults
         [] answer[e].kind = "pong" -> AddFault(e)
         [] answer[e].kind = "confirm" ->
              /\ phase' = [phase EXCEPT ![e] = "registered"]
              /\ faults' = Cleared(e)
    /\ LET told == CarriesHandshake(answer[e]) \/ IsConfirm(answer[e])
       IN  /\ causes' = IF told THEN causes \cup {"refused"} ELSE causes
           /\ spoiled' = (spoiled \/ told)
    /\ UNCHANGED <<ctx, link, ping, packed, allow, garbled>>

----------------------------------------------------------------------------
(* Data and configuration.                                                 *)

\* SendMessage of the application goroutine: pack with the write cipher ...
PackData(e) ==
    /\ phase[e] = "registered"
    /\ packed[e] = Nothing
    /\ used.data < MaxData
    /\ packed' = [packed EXCEPT ![e] = PackMessage(ctx[e])]
    /\ used' = [used EXCEPT !.data = @ + 1]
    /\ UNCHANGED <<ctx, phase, link, answer, ping, faults, allow, garbled, causes, spoiled>>

\* ... and push. By then the cipher may have changed ("stale"), or it has
\* changed and the peer is not told yet ("window").
PushData(e) ==
    /\ packed[e] # Nothing
    /\ link' = PushedTo(Peer(e), packed[e])
    /\ packed' = [packed EXCEPT ![e] = Nothing]
    /\ causes' = causes
         \cup (IF packed[e].cipher # ctx[e].write THEN {"stale"} ELSE {})
         \cup (IF answer[e].hs.seq # 0 THEN {"window"} ELSE {})
    /\ UNCHANGED <<ctx, phase, answer, ping, faults, allow, used, garbled, spoiled>>

\* onIoStreamReceived: a message that cannot be unpacked is a fault, and so
\* is one that comes before the connection is registered.
OnRecvData(e) ==
    /\ Receives(e, "data")
    /\ LET unpacked == UnpackSucceeds(ctx[e], Head(link[e]))
       IN  /\ IF unpacked /\ phase[e] = "registered"
              THEN faults' = Cleared(e) /\ UNCHANGED phase
              ELSE AddFault(e)
           /\ garbled' = (garbled \/ ~unpacked)
    /\ link' = Popped(e)
    /\ UNCHANGED <<ctx, answer, ping, packed, allow, used, causes, spoiled>>

\* Node.ReloadCrypto: connections keep their key exchange, the algorithms
\* are those of the node.
ReloadCrypto(e) ==
    /\ used.reloads < MaxReloads
    /\ \E algs \in SUBSET Algs : algs # allow[e] /\ allow' = [allow EXCEPT ![e] = algs]
    /\ used' = [used EXCEPT !.reloads = @ + 1]
    /\ UNCHANGED <<ctx, phase, link, answer, ping, packed, faults, garbled, causes, spoiled>>

Next ==
    \/ SendRegister
    \/ OnRecvNodeRegisterReq
    \/ OnRecvNodeRegisterRsp
    \/ SendPing
    \/ PushPing
    \/ OnRecvNodePing
    \/ OnRecvNodePong
    \/ OnRecvHandshakeConfirm
    \/ \E e \in Ends : PushAnswer(e) \/ RefuseAnswer(e)
    \/ \E e \in Ends : PackData(e) \/ PushData(e) \/ OnRecvData(e) \/ ReloadCrypto(e)

Spec == Init /\ [][Next]_vars

\* The goroutines keep running: what is pushed is read, and a goroutine that
\* has packed a message goes on to push it. Nobody has to send anything.
Fairness ==
    /\ WF_vars(SendRegister)
    /\ WF_vars(OnRecvNodeRegisterReq \/ OnRecvNodePing \/ OnRecvHandshakeConfirm
               \/ OnRecvData("server"))
    /\ WF_vars(OnRecvNodeRegisterRsp \/ OnRecvNodePong \/ OnRecvData("client"))
    /\ WF_vars(PushPing)
    /\ \A e \in Ends : WF_vars(PushAnswer(e) \/ RefuseAnswer(e)) /\ WF_vars(PushData(e))

FairSpec == Spec /\ Fairness

----------------------------------------------------------------------------
(* Properties.                                                             *)

Phases == {"new", "registering", "registered", "reset"}
Kinds == {"nothing", "register", "register_rsp", "ping", "pong", "confirm", "data"}
Handshakes == [seq : 0..2 * MaxKeys, kx : KeyExchanges \cup {NoKx},
               algs : SUBSET Algs, pub : KeyPairs]
IsMessage(m) ==
    /\ DOMAIN m = {"kind", "hs", "ok", "cipher"}
    /\ m.kind \in Kinds /\ m.hs \in Handshakes /\ m.ok \in BOOLEAN /\ m.cipher \in Ciphers

\* Types of the state, and ConnectionContext's own bookkeeping: a receive
\* cipher is staged only while a confirmation is pending.
TypeOK ==
    /\ \A e \in Ends :
         /\ ctx[e].read \in Ciphers /\ ctx[e].write \in Ciphers /\ ctx[e].staged \in Ciphers
         /\ ctx[e].pending \in BOOLEAN /\ ctx[e].self \in KeyPairs
         /\ ctx[e].hsSeq \in 0..2 * MaxKeys /\ ctx[e].seq \in 0..2 * MaxKeys
         /\ {ctx[e].kx, ctx[e].kxUsed} \subseteq KeyExchanges \cup {NoKx}
         /\ ctx[e].staged # Plain => ctx[e].pending
         /\ phase[e] \in Phases
         /\ \A i \in DOMAIN link[e] : IsMessage(link[e][i])
         /\ IsMessage(answer[e]) /\ IsMessage(packed[e])
         /\ faults[e] \in 0..FaultTolerant /\ allow[e] \subseteq Algs
    /\ IsMessage(ping)
    /\ garbled \in BOOLEAN /\ spoiled \in BOOLEAN
    /\ causes \subseteq {"overlap", "refused", "reload", "window", "stale"}

\* A change of keys under traffic loses no message by itself: whatever is
\* read from the connection is decrypted (UnpackMessage), unless one of five
\* things happened: a handshake was started before the last was answered, an
\* answer was refused by the channel, the client stopped allowing the
\* algorithm between ping and pong, or a data message was packed before the
\* change and pushed after it, or pushed before the peer was told.
LostOnlyWhenDisturbed == garbled => causes # {}

\* ConfirmHandshake promotes a staged cipher only for the answer the client
\* confirmed: the server's half of the promoted key is the public key in the
\* very register_rsp or pong that the client has read, whatever handshakes
\* overlap and whatever messages were refused.
ConfirmMatchesAnswer ==
    [][ (ctx["server"].pending /\ ~ctx["server"].pending')
          => \/ ctx["server"].staged = Plain
             \/ Head(link["server"]).hs.pub \in ctx["server"].staged.key ]_vars

\* A handshake that nothing disturbs puts both directions on one cipher at
\* the moment the server confirms it, also when an earlier handshake had
\* left the two ends with different keys.
CleanHandshakeAgrees ==
    [][ (ctx["server"].pending /\ ~ctx["server"].pending' /\ ~spoiled)
          => /\ ctx["server"].read' = ctx["client"].write
             /\ ctx["server"].write = ctx["client"].read ]_vars

\* A staged receive cipher does not stay staged: the confirmation arrives,
\* unless an answer was refused, handshakes overlapped or an end was reset.
HandshakeCompletes ==
    ctx["server"].pending ~>
      \/ ~ctx["server"].pending
      \/ causes \cap {"refused", "overlap"} # {}
      \/ \E e \in Ends : phase[e] = "reset"

\* The comment in SendRegister: the client creates its own key pair and sends
\* it to the peer. So two registered ends with the same key exchange and a
\* common algorithm have a cipher.
RegisterNegotiates ==
    (/\ phase["client"] = "registered" /\ phase["server"] = "registered"
     /\ ctx["client"].kx = ctx["server"].kx /\ ctx["client"].kx # NoKx
     /\ used.reloads = 0 /\ allow["client"] \cap allow["server"] # {})
      => GetCryptoSelectAlgorithm(ctx["client"]) # NoneAlg
=============================================================================
