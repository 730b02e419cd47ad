---------------------------- MODULE HostTelephony ----------------------------
(***************************************************************************)
(* The handset and its adapter with the SIP bridge as their host: the      *)
(* whole path of a call from the handset's network to a SIP dialog.        *)
(***************************************************************************)
EXTENDS HostAdapter

\* See SipBridge.
ASSUME BridgeAssumption ==
    \A s \in Scenarios :
      /\ s.destinations \subseteq {"answers", "busy", "fails"}
      /\ s.callers \subseteq {"numbered", "anonymous"}
      /\ s.calls \in Nat /\ s.speech \in Nat

VARIABLES
    bridge, endpoint,   \* see SipBridge
    past,   \* history: requests that outlived a restore or a bridge, and the
            \* incoming calls the handset has connected
    tick    \* changes with every poll of the timer

Sip == INSTANCE SipBridge

telephonyVars == <<adapterVars, bridge, endpoint, past, tick>>

\* A request that is pending now and will be announced as this one
Resumed(epoch, p) == IF p.call.pending THEN {<<epoch, p.call.id>>} ELSE {}

\* The calls the handset is connected to, unless admitted only now
Connected ==
    LET call == {<<adapter'.epoch, adapter'.call.id>>} IN
    IF adapter'.call.id # adapter.call.id THEN past.connected \ call
    ELSE IF adapter.call.id # 0 /\ IncomingCallConnected(phone)
         THEN past.connected \cup call ELSE past.connected

TelephonyInit ==
    /\ AdapterInit /\ Sip!BridgeInit /\ tick = FALSE
    /\ past = [resumed |-> {}, connected |-> {}]

------------------------------------------------------------------------------
(* The timer, the handset and the machine *)

Polls ==
    /\ Poll
    /\ tick' = ~tick /\ past' = [past EXCEPT !.connected = Connected]
    /\ UNCHANGED <<bridge, endpoint>>

Device ==
    /\ Handset \/ LinkFails \/ MachineReset \/ Save \/ Receive
    /\ UNCHANGED <<bridge, endpoint, past, tick>>

Restores ==
    /\ Restore
    /\ past' = [past EXCEPT
                  !.resumed = @ \cup Resumed(adapter'.epoch, phone')]
    /\ UNCHANGED <<bridge, endpoint, tick>>

------------------------------------------------------------------------------
(* The bridge's process *)

\* The bridge connects once, when it starts; its dialogs end with it.
BridgeConnects ==
    /\ Connect /\ ~bridge.running
    /\ bridge' = Sip!BridgeStarts /\ endpoint' = Sip!EndpointStarts
    /\ UNCHANGED <<past, tick>>

BridgeExits ==
    /\ "disconnect" \in scenario.faults \/ ~bridge.running
    /\ Drops
    /\ bridge' = Sip!BridgeStops /\ endpoint' = Sip!EndpointStarts
    /\ past' = [past EXCEPT !.resumed = @ \cup Resumed(adapter.epoch, phone)]
    /\ UNCHANGED tick

BridgeActs ==
    /\ Sip!Turn \/ Sip!Peer
    /\ UNCHANGED <<devices, past, tick>>

TelephonyNext ==
    /\ \/ Polls \/ Device \/ Restores
       \/ BridgeConnects \/ BridgeExits \/ BridgeActs
    /\ UNCHANGED scenario

TelephonySpec == TelephonyInit /\ [][TelephonyNext]_telephonyVars

\* The timer polls, both processes read what they are sent, no connection of
\* the handset lasts for ever, and a page that is due is sent.  Weak fairness
\* of a poll and of a turn is written without ENABLED, from the condition under
\* which each can happen and what only it changes.
Listens == bridge.running /\ commands = <<>>
LiveTelephonySpec ==
    /\ TelephonySpec
    /\ []<>(Len(events) >= MaxEvents) \/ []<><<tick' # tick>>_telephonyVars
    /\ \/ []<>~(Listens /\ events # <<>>)
       \/ []<><<Len(events') < Len(events)>>_telephonyVars
    /\ \/ []<>~(Listens /\ endpoint.events # <<>>)
       \/ []<><<endpoint.events # <<>> /\ endpoint'.events = <<>>>>_telephonyVars
    /\ []<>(commands = <<>>)
    /\ []<>(phone.stage \in {"idle", "paging"})
    /\ []<>~(peer.call_pending /\ ~peer.page_transmitted /\ Idle(phone))

------------------------------------------------------------------------------
(* Properties *)

Sent(type) ==
    {commands'[n] : n \in {m \in DOMAIN commands' \ DOMAIN commands :
                             commands'[m].type = type}}

\* A handset call that was under way before a restore, or before the bridge
\* was started, is never dialled again (docs/external_call_bridge.md).
NeverRedials ==
    [][endpoint'.dialog = "calling" /\ endpoint'.owner # endpoint.owner =>
         endpoint'.owner \notin past.resumed]_endpoint

\* The handset hears the call it makes answered only when its own dialog was.
ConnectsOwnDialog ==
    [][\A command \in Sent("outgoing_call_decision") :
         command.content = "connect" =>
            <<command.epoch, command.id>> \in endpoint.answered]_commands

\* A SIP caller is answered only when the handset answered that very call.
AnswersPhysically ==
    [][endpoint.dialog = "ringing" /\ endpoint'.dialog = "answered" =>
         endpoint.owner \in past.connected]_endpoint

\* The handset's call is refused only when its own dialog was, or when it is
\* cleared after a restore.
RefusesOwn ==
    \A command \in Sent("outgoing_call_decision") :
      command.content # "connect" =>
         \/ <<command.epoch, command.id>> \in endpoint.failed
         \/ bridge.blocked \/ bridge'.blocked
EveryRefusalIsOwn == [][RefusesOwn]_commands

\* The same while nobody calls from the SIP side: the identities of successive
\* calls, late events of a released dialog and redialling confuse no two calls.
RefusesOwnDialog == [][scenario.calls = 0 => RefusesOwn]_commands

\* The handset's call is decided by its own dialog.
DecidedByOwnDialog == ConnectsOwnDialog /\ RefusesOwnDialog

\* Speech from the host reaches the handset only in a call whose dialog was
\* answered: none of an earlier epoch, of another call or of a cleared one.
HearsAnsweredDialog ==
    [][tick' # tick /\ voice'.downlink > voice.downlink =>
         <<adapter'.epoch, voice'.request>>
            \in endpoint.answered \cup past'.connected]_voice

\* A dialog that is up, or being set up, is that of the bridge's call, unless
\* the bridge has yet to hear of it: when the handset ends a call, or makes one
\* while another rings, the other end is told.
DialogHasCall ==
    \/ endpoint.dialog \in {"calling", "answered", "confirmed"}
    \/ endpoint.dialog = "ringing" /\ endpoint.events = <<>>
    => endpoint.owner = bridge.identity

\* No order of calls, clearings and restores stops the bridge.
KeepsRunning ==
    [][bridge.running /\ adapter'.connected => bridge'.running]_(bridge.running)

\* When the handset's call is over the bridge is free for the next.
CallOver == Idle(phone) /\ adapter.call.id = 0
BridgeIsFreed ==
    (bridge.identity # Sip!None /\ CallOver)
        ~> (bridge.identity = Sip!None \/ ~CallOver \/ ~bridge.running)

\* The handset calls a restore or a restart leaves without a dialog are
\* cleared, and a bridge that nobody calls from the SIP side serves new ones.
GuardIsReleased ==
    (bridge.blocked /\ scenario.calls = 0) ~> ~bridge.blocked

\* The bridge returns to service, by either way.
BridgeReturns == GuardIsReleased /\ BridgeIsFreed

\* The same of every bridge: "replayed call state is cleared ... rather than
\* silently redialed" (docs/external_call_bridge.md).
EveryGuardIsReleased == bridge.blocked ~> ~bridge.blocked
==============================================================================
