------------------------------ MODULE Delivery ------------------------------
(***************************************************************************)
(* What a dedicated channel promises Layer 3 on both ends: messages arrive *)
(* whole, once and in the order they were given, and the network is told   *)
(* that a message was acknowledged only when the handset has it.  The      *)
(* network gives one message at a time.  Once the channel is closed the    *)
(* network neither hears nor is told anything until it is opened anew;     *)
(* what is in the air by then may still arrive at the handset.             *)
(*                                                                         *)
(* The messages of one direction are numbered in the order they are given; *)
(* what arrived is a sequence of these numbers.                            *)
(***************************************************************************)
EXTENDS Naturals, Sequences

VARIABLE channel

Opened ==
    [open |-> TRUE,
     given |-> 0,          \* messages the network's Layer 3 gave
     taken |-> <<>>,       \* what the handset's Layer 3 received
     acknowledged |-> 0,   \* messages the network's Layer 3 was told of
     said |-> 0,           \* messages the handset's Layer 3 gave
     heard |-> <<>>]       \* what the network's Layer 3 received

Init == channel = Opened

\* What one end may do in a step, as the set of its outcomes.
Gives(c) == {c, [c EXCEPT !.given = c.acknowledged + 1]}
Says(c) == {c, [c EXCEPT !.said = Len(c.heard) + 1]}
Hears(c) ==
    {c} \cup {h \in {[c EXCEPT !.heard = Append(@, Len(@) + 1)]} :
                Len(h.heard) <= c.said}
Acknowledges(c) == {c, [c EXCEPT !.acknowledged = Len(c.taken)]}
Closes(c) == {c, [c EXCEPT !.open = FALSE]}

\* The handset receives a message.
Take ==
    /\ Len(channel.taken) < channel.given
    /\ channel' = [channel EXCEPT !.taken = Append(@, Len(@) + 1)]

\* One block of the handset: it may begin a message, acknowledge one, complete
\* one, be answered, and be the last the channel carries.
Uplink ==
    /\ channel.open
    /\ \E a \in Says(channel) : \E b \in Acknowledges(a) : \E c \in Hears(b) :
         \E d \in Gives(c) : channel' \in Closes(d)

\* The handset begins a message nobody listens to.
Say == channel' \in Says(channel)

\* The network gives a message of its own accord, or the channel ends.
Network ==
    /\ channel.open
    /\ channel' \in Gives(channel) \cup Closes(channel)

Reopen == ~channel.open /\ channel' = Opened

Next == Take \/ Uplink \/ Say \/ Network \/ Reopen

Spec == Init /\ [][Next]_channel
==============================================================================
