----------------------------- MODULE NoiseChannel -----------------------------
(***************************************************************************)
(* A Noise session from its handshake on: the IK pattern of a link or the  *)
(* XK pattern of an end-to-end session, then the transport of              *)
(* ReplayWindow from the initiator to the responder.                       *)
(*                                                                         *)
(* Keys, hashes and ciphertexts are terms: two chaining keys or transcript *)
(* hashes are equal when the same was mixed in the same order, and a       *)
(* ciphertext opens under the key and nonce that sealed it.  A chaining    *)
(* key stands for the cipher key derived with it.                          *)
(*                                                                         *)
(* Both ends keep a HandshakeState for each attempt.  Every message may be *)
(* lost, and reach the state of any attempt at any time.  A read that      *)
(* fails leaves its state as far changed as it got.                        *)
(***************************************************************************)
EXTENDS ReplayWindow, Sequences

CONSTANTS Attempt,    \* handshakes an end may begin
          OddStatic,  \* the ends whose static public key has odd parity
          MaxFailed   \* bound: reads that fail

End == {"initiator", "responder"}
ASSUME OddAssumption == OddStatic \subseteq End

VARIABLES
  pattern,  \* "IK" or "XK"
  hs,       \* hs[end][a]: HandshakeState of attempt a
  wire,     \* messages written
  keys,     \* cipher keys of the initiator's sending and the responder's
            \* receiving session: <<>> until it exists
  failed    \* number of reads that failed

handshakeVars == <<pattern, hs, wire, keys, failed>>
transportVars == <<nonce, highest, bitmap, times, verdict>>

-----------------------------------------------------------------------------
(* Keys and the symmetric state.                                           *)

NoKey == [owner |-> "none", of |-> 0, odd |-> FALSE]
Static(end) == [owner |-> end, of |-> 0, odd |-> end \in OddStatic]
Ephemeral(end, a) == [owner |-> end, of |-> a, odd |-> FALSE]

\* Wrong variant: the key is mixed with the parity it happens to have.
AsIs(k) == k

\* The key known before the handshake is mixed as if its parity were even.
NormalizeForPremessage(k) == [k EXCEPT !.odd = FALSE]

\* Only the x coordinate of the shared point is hashed.
Ecdh(k, l) == {[owner |-> k.owner, of |-> k.of], [owner |-> l.owner, of |-> l.of]}

MixHash(s, data) == [s EXCEPT !.h = Append(@, data)]
MixKey(s, k) == [s EXCEPT !.ck = Append(@, k), !.nonce = 0]

Seal(s, text) == [key |-> s.ck, nonce |-> s.nonce, text |-> text]

\* Wrong variant: the nonce stays.
SameNonce(s) == s.nonce

NextNonce(s) == s.nonce + 1
EncryptAndHash(s, text) == [MixHash(s, Seal(s, text)) EXCEPT !.nonce = NextNonce(s)]

\* Wrong variant: whatever the key, a ciphertext opens.
OpensAlways(s, c) == c.nonce = s.nonce

Opens(s, c) == c.key = s.ck /\ c.nonce = s.nonce
DecryptAndHash(s, c) ==
  IF Opens(s, c) THEN [MixHash(s, c) EXCEPT !.nonce = NextNonce(s)]
  ELSE [s EXCEPT !.nonce = NextNonce(s), !.failed = TRUE]

\* split and into_session: the initiator sends with the first key.
SendKey(s) == <<s.ck, 1>>
ReceiveKey(s) == <<s.ck, 1>>

\* An npub or a peer list holds the x coordinate only.
Published(k) == [k EXCEPT !.odd = FALSE]

ResponderKey(end) ==
  IF end = "initiator" THEN Published(Static("responder")) ELSE Static("responder")

\* new_initiator, new_responder, new_xk_initiator, new_xk_responder.
NewHandshake(end, p) ==
  [progress |-> "Initial", h |-> <<p, NormalizeForPremessage(ResponderKey(end))>>,
   ck |-> <<p>>, nonce |-> 0, e |-> NoKey, re |-> NoKey,
   rs |-> IF end = "initiator" THEN ResponderKey(end) ELSE NoKey,
   epochOf |-> "none", failed |-> FALSE]

-----------------------------------------------------------------------------
(* Parts of messages.  A step after a failed one does nothing.             *)

Then(s, t) == IF s.failed THEN s ELSE t

WriteEphemeral(s, end, a) == MixHash([s EXCEPT !.e = Ephemeral(end, a)], Ephemeral(end, a))
ReadEphemeral(s, k) == MixHash([s EXCEPT !.re = k], k)

WriteStatic(s, end) == EncryptAndHash(s, Static(end))
ReadStatic(s, c) ==
  LET t == DecryptAndHash(s, c) IN Then(t, [t EXCEPT !.rs = c.text])

WriteEpoch(s, end) == EncryptAndHash(s, [epochOf |-> end])
ReadEpoch(s, c) ==
  LET t == DecryptAndHash(s, c) IN Then(t, [t EXCEPT !.epochOf = c.text.epochOf])

Done(s, progress) == Then(s, [s EXCEPT !.progress = progress])

\* The last part of what was mixed into the hash: the ciphertext just written.
Written(s) == s.h[Len(s.h)]

\* A call returns its error and leaves the state it changed.
Step(end, a, s) ==
  /\ s.failed => failed < MaxFailed
  /\ failed' = IF s.failed THEN failed + 1 ELSE failed
  /\ hs' = [hs EXCEPT ![end][a] = [s EXCEPT !.failed = FALSE]]

-----------------------------------------------------------------------------
(* The messages of the two patterns.                                       *)

\* write_xk_message_1: e, es.
WriteXkMessage1(s, a) ==
  MixKey(WriteEphemeral(s, "initiator", a), Ecdh(Ephemeral("initiator", a), s.rs))

\* write_message_1 goes on: s, ss, epoch.
WriteMessage1(a) ==
  LET s == hs["initiator"][a]
      es == WriteXkMessage1(s, a)
      st == WriteStatic(es, "initiator")
      ss == MixKey(st, Ecdh(Static("initiator"), s.rs))
      ep == WriteEpoch(ss, "initiator")
  IN  /\ s.progress = "Initial"
      /\ IF pattern = "IK"
         THEN /\ Step("initiator", a, Done(ep, "Message1Done"))
              /\ wire' = wire \cup {[n |-> 1, e |-> ep.e, static |-> Written(st),
                                     epoch |-> Written(ep)]}
         ELSE /\ Step("initiator", a, Done(es, "Message1Done"))
              /\ wire' = wire \cup {[n |-> 1, e |-> es.e]}

ReadXkMessage1(s, m) == MixKey(ReadEphemeral(s, m.e), Ecdh(Static("responder"), m.e))

ReadMessage1(b, m) ==
  LET s == hs["responder"][b]
      es == ReadXkMessage1(s, m)
      st == ReadStatic(es, m.static)
      ss == Then(st, MixKey(st, Ecdh(Static("responder"), st.rs)))
      ep == Then(ss, ReadEpoch(ss, m.epoch))
  IN  /\ m.n = 1 /\ s.progress = "Initial"
      /\ Step("responder", b, Done(IF pattern = "IK" THEN ep ELSE es, "Message1Done"))
      /\ UNCHANGED wire

\* write_xk_message_2: e, ee, epoch.
EphemeralsWritten(s, b) ==
  MixKey(WriteEphemeral(s, "responder", b), Ecdh(Ephemeral("responder", b), s.re))
WriteXkMessage2(s, b) == WriteEpoch(EphemeralsWritten(s, b), "responder")

\* write_message_2: e, ee, se, epoch.
WriteIkMessage2(s, b) ==
  WriteEpoch(MixKey(EphemeralsWritten(s, b), Ecdh(Static("responder"), s.re)), "responder")

WriteMessage2(b) ==
  LET s == hs["responder"][b]
      ep == IF pattern = "IK" THEN WriteIkMessage2(s, b) ELSE WriteXkMessage2(s, b)
  IN  /\ s.progress = "Message1Done"
      /\ Step("responder", b,
              Done(ep, IF pattern = "IK" THEN "Complete" ELSE "Message2Done"))
      /\ wire' = wire \cup {[n |-> 2, e |-> ep.e, epoch |-> Written(ep)]}

EphemeralsRead(s, m) == MixKey(ReadEphemeral(s, m.e), Ecdh(s.e, m.e))
ReadXkMessage2(s, m) == ReadEpoch(EphemeralsRead(s, m), m.epoch)
ReadIkMessage2(s, m) == ReadEpoch(MixKey(EphemeralsRead(s, m), Ecdh(s.e, s.rs)), m.epoch)

ReadMessage2(a, m) ==
  LET s == hs["initiator"][a]
      ep == IF pattern = "IK" THEN ReadIkMessage2(s, m) ELSE ReadXkMessage2(s, m)
  IN  /\ m.n = 2 /\ s.progress = "Message1Done"
      /\ Step("initiator", a,
              Done(ep, IF pattern = "IK" THEN "Complete" ELSE "Message2Done"))
      /\ UNCHANGED wire

\* write_xk_message_3: s, se, epoch.
WriteMessage3(a) ==
  LET s == hs["initiator"][a]
      st == WriteStatic(s, "initiator")
      se == MixKey(st, Ecdh(Static("initiator"), s.re))
      ep == WriteEpoch(se, "initiator")
  IN  /\ pattern = "XK" /\ s.progress = "Message2Done"
      /\ Step("initiator", a, Done(ep, "Complete"))
      /\ wire' = wire \cup {[n |-> 3, static |-> Written(st), epoch |-> Written(ep)]}

ReadMessage3(b, m) ==
  LET s == hs["responder"][b]
      st == ReadStatic(s, m.static)
      se == Then(st, MixKey(st, Ecdh(s.e, st.rs)))
      ep == Then(se, ReadEpoch(se, m.epoch))
  IN  /\ m.n = 3 /\ s.progress = "Message2Done"
      /\ Step("responder", b, Done(ep, "Complete"))
      /\ UNCHANGED wire

Handshake ==
  /\ keys.receive = <<>>
  /\ \/ \E a \in Attempt :
          \/ WriteMessage1(a) \/ WriteMessage2(a) \/ WriteMessage3(a)
          \/ \E m \in wire : ReadMessage1(a, m) \/ ReadMessage2(a, m) \/ ReadMessage3(a, m)
  /\ UNCHANGED <<pattern, keys>>
  /\ UNCHANGED transportVars

-----------------------------------------------------------------------------
(* The transport.                                                          *)

\* The ends of one handshake: what the session indices, or the addresses, of an
\* answer lead to.
Partners(a, b) ==
  /\ hs["initiator"][a].re = hs["responder"][b].e
  /\ hs["responder"][b].re = hs["initiator"][a].e

\* into_session at the initiator, which may send before the responder is ready.
OpenSender(a) ==
  /\ hs["initiator"][a].progress = "Complete"
  /\ keys.send = <<>>
  /\ keys' = [keys EXCEPT !.send = SendKey(hs["initiator"][a]), !.attempt = a]
  /\ UNCHANGED <<pattern, hs, wire, failed>>
  /\ UNCHANGED transportVars

\* into_session at the responder; the handshakes and their messages are gone.
OpenReceiver(b) ==
  /\ hs["responder"][b].progress = "Complete"
  /\ keys.send # <<>> /\ keys.receive = <<>>
  /\ Partners(keys.attempt, b)
  /\ keys' = [keys EXCEPT !.receive = ReceiveKey(hs["responder"][b])]
  /\ hs' = [end \in End |-> [a \in Attempt |-> NewHandshake(end, pattern)]]
  /\ wire' = {}
  /\ failed' = 0
  /\ UNCHANGED pattern
  /\ UNCHANGED transportVars

\* Frames sent before the responder is ready wait like any other.
SendFrame ==
  /\ keys.receive # <<>>
  /\ Send
  /\ UNCHANGED handshakeVars

\* A genuine frame opens with the sender's key only.
ReceiveFrame(c, genuine) ==
  /\ keys.receive # <<>>
  /\ IF genuine => keys.receive = keys.send
     THEN Receive(c, genuine)
     ELSE /\ c < nonce
          /\ verdict' = [counter |-> c, genuine |-> TRUE, accepted |-> FALSE]
          /\ UNCHANGED <<nonce, highest, bitmap, times>>
  /\ UNCHANGED handshakeVars

-----------------------------------------------------------------------------

ChannelInit ==
  /\ Init
  /\ pattern \in {"IK", "XK"}
  /\ hs = [end \in End |-> [a \in Attempt |-> NewHandshake(end, pattern)]]
  /\ wire = {}
  /\ failed = 0
  /\ keys = [send |-> <<>>, receive |-> <<>>, attempt |-> 0]

ChannelNext ==
  \/ Handshake
  \/ \E a \in Attempt : OpenSender(a) \/ OpenReceiver(a)
  \/ SendFrame
  \/ \E c \in Counter, genuine \in BOOLEAN : ReceiveFrame(c, genuine)

ChannelSpec == ChannelInit /\ [][ChannelNext]_<<handshakeVars, transportVars>>

-----------------------------------------------------------------------------
(* Properties.                                                             *)

\* The ends of a handshake that is complete at both agree: on the keys, on the
\* transcript whatever the parity of their keys (handshake.rs 146), on who the other
\* is and on its epoch.
PartnersAgree ==
  \A a, b \in Attempt :
    LET i == hs["initiator"][a]
        r == hs["responder"][b]
    IN  i.progress = "Complete" /\ r.progress = "Complete" /\ Partners(a, b)
          => /\ i.ck = r.ck /\ i.h = r.h
             /\ i.epochOf = "responder" /\ r.epochOf = "initiator"
             /\ r.rs = Static("initiator")

\* An end that knows the other's identity and epoch was answered by it in this very
\* attempt: a message of another attempt, or a state that an earlier failed read left
\* half changed, never completes a handshake (handshake.rs 505, 701, 800).
NoMixedHandshake ==
  \A a \in Attempt :
    /\ hs["initiator"][a].progress \in {"Message2Done", "Complete"}
         => \E b \in Attempt : Partners(a, b)
    /\ pattern = "XK" /\ hs["responder"][a].progress = "Complete"
         => \E b \in Attempt : Partners(b, a) /\ hs["initiator"][b].progress = "Complete"

\* No key and nonce ever seal two texts: message 3 of XK goes on with the key and the
\* nonce that message 2 left (handshake.rs 778), read or written.
SealedOnce ==
  LET sealed == {m.epoch : m \in {n \in wire : n.n # 1 \/ pattern = "IK"}}
                \cup {m.static : m \in {n \in wire : n.n = 3 \/ (n.n = 1 /\ pattern = "IK")}}
  IN  \A c, d \in sealed : c.key = d.key /\ c.nonce = d.nonce => c.text = d.text

=============================================================================
