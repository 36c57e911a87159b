----------------------------- MODULE HostSession -----------------------------
(***************************************************************************)
(* The host's session loop (crates/host/src/lib.rs) and the viewers that   *)
(* talk to it over UDP: Noise handshake, consent, Hello with the verdict   *)
(* of AuthValidator, the session with its keep-alive watchdog, teardown    *)
(* and the next round.                                                     *)
(*                                                                         *)
(* A viewer process has an address of its own, named by the process, and   *)
(* connects once; a viewer that is started again is another process with   *)
(* the same key.  The network holds a set of datagrams and delivers them   *)
(* in any order.  The lockout clock of AuthValidator is not composed: no   *)
(* viewer of this code base gets a PIN checked, since its Hello with one   *)
(* comes after the reset that follows a rejection (see RightPinConnects).  *)
(*                                                                         *)
(* recv decrypts what is flagged as encrypted and reads what is not as it  *)
(* is.  Of what the viewers of this code base send nothing but NoiseE1 is  *)
(* in the clear; a KeepAlive in the clear is modelled as a happening, a    *)
(* Hello in the clear, which nothing here sends, is not.                   *)
(***************************************************************************)
EXTENDS AuthValidator

CONSTANTS
  Procs, key_of,               \* viewer processes and the Noise keys they use
  pin_of, eph_of,              \* --pin and --ephemeral of a viewer, or None
  silent_allow, consent_gui,   \* --silent-allow; a GUI answers consent prompts
  May,                         \* what may happen, see below
  MaxDups,                     \* bound: datagrams the network duplicates
  KEEPALIVE_TIMEOUT,           \* in ticks of the watchdog
  DEFAULT_HELLO_RETRIES

\* "wrong_host" is a NoiseE1 made for the key of another host, "bad_codec" a
\* Hello that asks for a codec the host lacks, "clear" a KeepAlive in the clear.
Happenings == {"loss", "crash", "stop", "encoder_error", "outage", "wrong_host", "bad_codec",
               "clear", "noise_timeout", "hello_retry", "hello_timeout"}

ASSUME SessionAssumption ==
  /\ key_of \in [Procs -> Peers]
  /\ silent_allow \in BOOLEAN /\ consent_gui \in BOOLEAN
  /\ May \subseteq Happenings /\ MaxDups \in Nat
  /\ KEEPALIVE_TIMEOUT \in Nat /\ DEFAULT_HELLO_RETRIES \in Nat \ {0}
  /\ None \notin Procs /\ "host" \notin Procs

VARIABLES
  stage,        \* where the loop of run_host is
  peer,         \* CustomUdpTransport.peer: the address the host sends to
  crypto,       \* the Noise session [of, no] the host has installed, or None
  handshakes,   \* Noise handshakes answered for each process
  granted,      \* session_permissions
  silence,      \* watchdog ticks since the last KeepAlive
  cancelled,    \* listener_cancel
  viewer,       \* the state of each viewer process
  net, dups,    \* the datagrams in flight; duplications left
  chosen        \* history: what the user last chose for a key at the prompt

hostVars == <<stage, peer, crypto, handshakes, granted, silence, cancelled>>
vars == <<authVars, hostVars, viewer, net, dups, chosen>>

Stages == {"noise", "consent", "hello", "session", "stopped", "failed"}
VStages == {"idle", "noise", "hello", "streaming", "exited"}
Sessions == [of : Procs, no : 1..(MaxDups + 1)]
ASSUME NoneAssumption == None \notin Sessions

Key(s) == key_of[s.of]
Active(p) == viewer[p].at \in {"noise", "hello", "streaming"}

NewViewer == [at |-> "idle", crypto |-> None, attempt |-> "Tofu", used |-> {}, sends |-> 0]

Init ==
  /\ AuthInit
  /\ stage = "noise" /\ peer = None /\ crypto = None
  /\ handshakes = [p \in Procs |-> 0]
  /\ granted = None /\ silence = 0 /\ cancelled = FALSE
  /\ viewer = [p \in Procs |-> NewViewer]
  /\ net = {} /\ dups = 0
  /\ chosen = known

-----------------------------------------------------------------------------
(***************************************************************************)
(* Datagrams.  `under` is the session that encrypted one, None for a clear *)
(* one.  What is sent to a process that has exited is gone.                *)
(***************************************************************************)
Host == "host"
ToHost(p, kind, under, body) == [to |-> Host, from |-> p, kind |-> kind, under |-> under, body |-> body]
ToViewer(p, kind, under, body) == [to |-> p, from |-> Host, kind |-> kind, under |-> under, body |-> body]

\* The datagrams left when d has been taken and ds are sent.
Sent(d, ds) == (net \ {d}) \union {x \in ds : x.to = Host \/ Active(x.to)}

Lose(d) ==
  /\ "loss" \in May
  /\ net' = net \ {d}
  /\ UNCHANGED <<authVars, hostVars, viewer, dups, chosen>>

\* A duplicate arrives later, so the host takes d and d stays in flight.
Again(d) == IF dups < MaxDups /\ d.kind = "E1" THEN {{}, {d}} ELSE {{}}
Redelivered(d, copies) == dups' = IF d \in copies THEN dups + 1 ELSE dups

-----------------------------------------------------------------------------
(***************************************************************************)
(* The host.                                                               *)
(***************************************************************************)

\* Mutant of CryptoReset: the old session stays installed.
CryptoReset_Kept == crypto' = crypto
CryptoReset == crypto' = None

\* reset_session at the head of the loop.  The socket's queue is kept.
Reset ==
  /\ stage' = "noise" /\ peer' = None /\ CryptoReset
  /\ granted' = None /\ silence' = 0
  /\ UNCHANGED <<handshakes, cancelled>>

\* Both receive functions take the sender of any datagram as the peer when
\* there is none, before they look at it.
Pinned(d) == IF peer = None THEN d.from ELSE peer

\* NoiseE2 crosses in the clear, before the session is installed.
E2For(to, s) == ToViewer(to, "E2", None, s)

\* Mutant of E2Target: the answer goes to the sender of NoiseE1.
E2Target_Sender(d) == d.from
E2Target(d) == Pinned(d)

\* Where the loop goes with an authenticated key: on to the Hello, to the
\* consent prompt, or back to the start.
Gate(k) == IF silent_allow \/ known[k] # None THEN "hello"
           ELSE IF consent_gui THEN "consent" ELSE "noise"

\* NoiseE1 arrives at handshake_as_server.
AnswerE1(d, copies) ==
  LET s == [of |-> d.from, no |-> handshakes[d.from] + 1]
      at == Gate(Key(s))
  IN  /\ handshakes' = [handshakes EXCEPT ![d.from] = @ + 1]
      /\ net' = Sent(d, {E2For(E2Target(d), s)} \union copies)
      /\ stage' = at
      /\ peer' = IF at = "noise" THEN None ELSE Pinned(d)
      /\ crypto' = IF at = "noise" THEN None ELSE s
      /\ UNCHANGED <<granted, silence, cancelled>>

HostRecvNoise(d) ==
  /\ stage = "noise" /\ ~cancelled /\ d.to = Host
  /\ \E copies \in Again(d) :
       /\ Redelivered(d, copies)
       /\ \/ /\ d.kind = "E1"
             /\ AnswerE1(d, copies)
          \/ /\ d.kind = "E1" /\ "wrong_host" \in May
             /\ Reset /\ net' = Sent(d, copies)
          \/ /\ d.kind # "E1"
             /\ peer' = Pinned(d) /\ net' = Sent(d, copies)
             /\ UNCHANGED <<stage, crypto, handshakes, granted, silence, cancelled>>
  /\ UNCHANGED <<authVars, viewer, chosen>>

\* Mutant of Recorded: the peer is saved with the host's default permissions.
Recorded_Default(perms) == default_permissions
Recorded(perms) == perms

ConsentAccepted(perms) ==
  /\ stage = "consent" /\ stage' = "hello"
  /\ known' = [known EXCEPT ![Key(crypto)] = Recorded(perms)]
  /\ chosen' = [chosen EXCEPT ![Key(crypto)] = perms]
  /\ UNCHANGED <<mode, failed, locked, ephemeral, peer, crypto, handshakes, granted, silence,
                 cancelled, viewer, net, dups>>

\* The user says no, or the prompt is dropped.
ConsentRefused ==
  /\ stage = "consent"
  /\ Reset
  /\ UNCHANGED <<authVars, viewer, net, dups, chosen>>

\* Mutant of Decrypts: what was encrypted under an older session is read, too.
Decrypts_Any(d) == TRUE

\* What recv hands on once a session is installed: what decrypts under it, and what
\* is not flagged as encrypted.
Decrypts(d) == d.under \in {None, crypto}

\* HostAuthHook::evaluate.
Evaluate(k, hello) ==
  LET v == Verdict(k, hello.method, hello.payload) IN
  IF v.code # "NeedsConsent" THEN v
  ELSE IF silent_allow THEN Granted(v.perms) ELSE Rejected("ConsentDenied")

RejectHello(d, code) ==
  /\ Reset
  /\ net' = Sent(d, {ToViewer(peer, "Reject", crypto, code)})

AckHello(d, perms) ==
  /\ net' = Sent(d, {ToViewer(peer, "Ack", crypto, perms)})
  /\ granted' = perms /\ silence' = 0
  /\ \/ stage' = "session"
     \/ "encoder_error" \in May /\ stage' = "failed"   \* build_video_producer(..)?
  /\ UNCHANGED <<peer, crypto, handshakes, cancelled>>

\* A Hello arrives at host_handshake.
HelloArrives(d) ==
  /\ stage = "hello" /\ d.to = Host /\ d.kind = "Hello" /\ Decrypts(d)
  /\ \/ "bad_codec" \in May /\ RejectHello(d, "UnsupportedCodec") /\ UNCHANGED authVars
     \/ LET k == Key(crypto)
            v == Evaluate(k, d.body)
        IN  /\ Validate(k, d.body.method, d.body.payload)
            /\ IF v.code = "Grant" THEN AckHello(d, v.perms) ELSE RejectHello(d, v.code)
  /\ UNCHANGED <<viewer, dups, chosen>>

\* Anything else is read and dropped by host_handshake, and by the session's
\* receive loop.
HostIgnores(d) ==
  /\ d.to = Host
  /\ \/ stage = "hello" /\ ~(d.kind = "Hello" /\ Decrypts(d))
     \/ stage = "session" /\ ~(d.kind = "KeepAlive" /\ Decrypts(d))
  /\ \E copies \in Again(d) : Redelivered(d, copies) /\ net' = Sent(d, copies)
  /\ UNCHANGED <<authVars, hostVars, viewer, chosen>>

KeepAliveArrives(d) ==
  /\ stage = "session" /\ d.to = Host /\ d.kind = "KeepAlive" /\ Decrypts(d)
  /\ silence' = 0 /\ net' = Sent(d, {})
  /\ UNCHANGED <<authVars, stage, peer, crypto, handshakes, granted, cancelled, viewer,
                 dups, chosen>>

HostReceives(d) ==
  HostRecvNoise(d) \/ HelloArrives(d) \/ HostIgnores(d) \/ KeepAliveArrives(d)

\* host_handshake gives up after 60 s.
HelloWaitEnds ==
  /\ stage = "hello" /\ "hello_timeout" \in May
  /\ Reset
  /\ UNCHANGED <<authVars, viewer, net, dups, chosen>>

\* The viewer streams in the host's session, or is about to.
Served(p) ==
  \/ viewer[p].at = "streaming"
  \/ \E d \in net : d.kind = "Ack" /\ d.under = viewer[p].crypto

\* A second passes for the watchdog.  The KeepAlives of a viewer that is served
\* come in time unless the network has an outage.
WatchdogTick ==
  /\ stage = "session" /\ silence <= KEEPALIVE_TIMEOUT
  /\ "outage" \in May \/ ~Served(crypto.of)
  /\ silence' = silence + 1
  /\ UNCHANGED <<authVars, stage, peer, crypto, handshakes, granted, cancelled, viewer,
                 net, dups, chosen>>

\* The session's token is cancelled, the workers are joined and the loop starts
\* over.
Teardown ==
  /\ stage = "session" /\ (silence > KEEPALIVE_TIMEOUT \/ cancelled)
  /\ Reset
  /\ UNCHANGED <<authVars, viewer, net, dups, chosen>>

Stop ==
  /\ "stop" \in May /\ ~cancelled /\ cancelled' = TRUE
  /\ UNCHANGED <<authVars, stage, peer, crypto, handshakes, granted, silence, viewer, net,
                 dups, chosen>>

\* Mutant of StopSeen: the wait for a handshake does not watch the token.
StopSeen_Never == FALSE
StopSeen == cancelled

HostStops ==
  /\ stage = "noise" /\ StopSeen /\ stage' = "stopped"
  /\ UNCHANGED <<authVars, peer, crypto, handshakes, granted, silence, cancelled, viewer,
                 net, dups, chosen>>

-----------------------------------------------------------------------------
(***************************************************************************)
(* A viewer process.                                                       *)
(***************************************************************************)
Becomes(p, v) == viewer' = [viewer EXCEPT ![p] = v]
ViewerOnly == UNCHANGED <<authVars, hostVars, dups, chosen>>

\* The process ends; what is on its way to it is gone.
Exits(p) ==
  /\ Becomes(p, [viewer[p] EXCEPT !.at = "exited"])
  /\ net' = {x \in net : x.to # p}

Start(p) ==
  /\ viewer[p].at = "idle"
  /\ Becomes(p, [NewViewer EXCEPT !.at = "noise"])
  /\ net' = net \union {ToHost(p, "E1", None, None)}
  /\ ViewerOnly

\* HelloTemplate::build for an attempt.
HelloOf(p, s, attempt) ==
  ToHost(p, "Hello", s,
         [method |-> attempt,
          payload |-> CASE attempt = "Tofu" -> None
                        [] attempt = "Pin" -> pin_of[p]
                        [] attempt = "Ephemeral" -> eph_of[p]])

\* handshake_as_client: an E2 that was made for another E1 ends it.
GetsE2(p, d) ==
  /\ viewer[p].at = "noise" /\ d.kind = "E2" /\ d.under = None
  /\ IF d.body.of = p
     THEN /\ Becomes(p, [viewer[p] EXCEPT !.at = "hello", !.crypto = d.body, !.sends = 1])
          /\ net' = Sent(d, {HelloOf(p, d.body, "Tofu")})
     ELSE Exits(p)

GetsAck(p, d) ==
  /\ viewer[p].at = "hello" /\ d.kind = "Ack" /\ d.under = viewer[p].crypto
  /\ Becomes(p, [viewer[p] EXCEPT !.at = "streaming"])
  /\ net' = Sent(d, {})

\* What run_viewer_auth_loop tries next: "Pin", "Ephemeral" or nothing.
NextAttempt(attempt, code) ==
  IF code \in {"PinRequired", "AuthFailed"} /\ attempt \in {"Tofu", "Pin"} THEN "Pin"
  ELSE IF code \in {"EphemeralRequired", "AuthFailed"} THEN "Ephemeral" ELSE None

Supplied(p, method) ==
  /\ method # None /\ method \notin viewer[p].used
  /\ (IF method = "Pin" THEN pin_of[p] ELSE eph_of[p]) # None

GetsReject(p, d) ==
  LET v == viewer[p]  next == NextAttempt(v.attempt, d.body) IN
  /\ v.at = "hello" /\ d.kind = "Reject" /\ d.under = v.crypto
  /\ IF Supplied(p, next)
     THEN /\ Becomes(p, [v EXCEPT !.attempt = next, !.used = @ \union {next}, !.sends = 1])
          /\ net' = Sent(d, {HelloOf(p, v.crypto, next)})
     ELSE Exits(p)

\* Everything else does not decrypt or is not looked at.
Expected(p, d) ==
  \/ viewer[p].at = "noise" /\ d.kind = "E2" /\ d.under = None
  \/ viewer[p].at = "hello" /\ d.kind \in {"Ack", "Reject"} /\ d.under = viewer[p].crypto

ViewerReceives(p, d) ==
  /\ d.to = p
  /\ \/ GetsE2(p, d) \/ GetsAck(p, d) \/ GetsReject(p, d)
     \/ ~Expected(p, d) /\ net' = Sent(d, {}) /\ UNCHANGED viewer
  /\ ViewerOnly

NoiseTimeout(p) ==
  /\ viewer[p].at = "noise" /\ "noise_timeout" \in May
  /\ Exits(p) /\ ViewerOnly

HelloRetry(p) ==
  LET v == viewer[p] IN
  /\ v.at = "hello" /\ "hello_retry" \in May
  /\ IF v.sends < DEFAULT_HELLO_RETRIES
     THEN /\ Becomes(p, [v EXCEPT !.sends = @ + 1])
          /\ net' = net \union {HelloOf(p, v.crypto, v.attempt)}
     ELSE Exits(p)
  /\ ViewerOnly

KeepAlive(p) ==
  /\ viewer[p].at = "streaming"
  /\ net' = net \union {ToHost(p, "KeepAlive", viewer[p].crypto, None)}
  /\ UNCHANGED viewer
  /\ ViewerOnly

\* Somebody sends a KeepAlive in the clear from the address of p.
ClearKeepAlive(p) ==
  /\ "clear" \in May
  /\ net' = net \union {ToHost(p, "KeepAlive", None, None)}
  /\ UNCHANGED viewer
  /\ ViewerOnly

Crash(p) ==
  /\ "crash" \in May /\ Active(p)
  /\ Exits(p) /\ ViewerOnly

-----------------------------------------------------------------------------
HostSteps ==
  \/ \E perms \in Perms : ConsentAccepted(perms)
  \/ ConsentRefused \/ HelloWaitEnds \/ WatchdogTick \/ Teardown \/ Stop \/ HostStops

Viewer(p) ==
  \/ Start(p) \/ NoiseTimeout(p) \/ HelloRetry(p) \/ KeepAlive(p)
  \/ ClearKeepAlive(p) \/ Crash(p)

Next ==
  \/ \E d \in net : HostReceives(d) \/ Lose(d) \/ (\E p \in Procs : ViewerReceives(p, d))
  \/ HostSteps
  \/ \E p \in Procs : Viewer(p)

Spec == Init /\ [][Next]_vars

(***************************************************************************)
(* Tasks that can run do, timers that run expire, what is not lost arrives *)
(* and the prompt is answered, at the latest by the GUI's timeout.  A user *)
(* need not start or stop anything.                                        *)
(***************************************************************************)
Fairness ==
  /\ \A p \in Procs :
       /\ WF_vars(\E d \in net : d.from = p /\ HostReceives(d))
       /\ WF_vars(\E d \in net : ViewerReceives(p, d))
       /\ WF_vars(NoiseTimeout(p)) /\ WF_vars(HelloRetry(p)) /\ WF_vars(KeepAlive(p))
  /\ WF_vars(ConsentRefused \/ \E perms \in Perms : ConsentAccepted(perms))
  /\ WF_vars(HelloWaitEnds) /\ WF_vars(WatchdogTick)
  /\ WF_vars(Teardown) /\ WF_vars(HostStops)

FairSpec == Spec /\ Fairness

-----------------------------------------------------------------------------
\* Types, and what belongs to a stage of the loop: a Noise session and an
\* address from the handshake to the reset, permissions from the Ack on.
TypeOK ==
  /\ AuthTypeOK
  /\ stage \in Stages /\ peer \in Procs \union {None} /\ crypto \in Sessions \union {None}
  /\ handshakes \in [Procs -> 0..(MaxDups + 1)] /\ dups \in 0..MaxDups
  /\ granted \in Perms \union {None} /\ silence \in 0..(KEEPALIVE_TIMEOUT + 1)
  /\ \A p \in Procs : viewer[p].at \in VStages /\ viewer[p].crypto \in Sessions \union {None}
  /\ stage \in {"noise", "stopped"} <=> crypto = None
  /\ crypto # None => peer # None
  /\ stage \in {"session", "failed"} <=> granted # None

\* A session's traffic goes to the address of the viewer it was granted to,
\* whatever stray, duplicated and late datagrams arrived since the last reset.
TrafficGoesToGrantee == stage = "session" => peer = crypto.of

\* A session runs with the permissions its user chose for the viewer's key, or
\* with the default ones under --silent-allow; without that flag some were chosen.
GrantedAsChosen ==
  stage = "session" =>
    granted = IF silent_allow /\ chosen[Key(crypto)] = None
              THEN default_permissions ELSE chosen[Key(crypto)]

\* KeepAlives in the clear go on resetting the watchdog (recv accepts them, udp.rs:845).
KeptByClear == []<><<\E d \in net : d.under = None /\ KeepAliveArrives(d)>>_vars

\* The host does not keep a Noise session with a viewer that is gone, even while
\* other viewers go on sending under older sessions, unless somebody goes on sending
\* KeepAlives in the clear.
HostFreesItself ==
  \/ KeptByClear
  \/ \A p \in Procs :
       (crypto # None /\ crypto.of = p /\ viewer[p].at = "exited")
         ~> (crypto = None \/ crypto.of # p \/ stage = "failed")

\* A stopped listener ends, in whatever stage it is.
StopEndsLoop == cancelled ~> stage \in {"stopped", "failed"}

\* A viewer with the right PIN gets in after the host asked for it.
RightPinConnects ==
  \A p \in Procs :
    (viewer[p].at = "noise" /\ pin_of[p] = Pin) ~> viewer[p].at = "streaming"
=============================================================================
