----------------------------- MODULE FlowControl -----------------------------
(***************************************************************************)
(* Backpressure on the DataChannel: WebRTCConnection.send and              *)
(* FlowController.waitForDrain, called by the streaming loop and by the    *)
(* control messages of the page, none of which waits for the others.       *)
(*                                                                         *)
(* A waiting send has three listeners and two timers of its own.  What     *)
(* settles it first, an event, the poll or the timeout, removes the rest,  *)
(* and the send goes on before the next task of the page: settling and     *)
(* going on are one step here.  Amounts are in units of a quarter of the   *)
(* high water mark.                                                        *)
(***************************************************************************)
EXTENDS Integers, FiniteSets

CONSTANTS
  Caller,         \* who calls send
  HighWaterMark, LowWaterMark,
  Chunk,          \* what a send adds to bufferedAmount
  Sends           \* bound: sends of a caller

ASSUME FlowAssumption ==
  /\ HighWaterMark \in Nat /\ LowWaterMark \in Nat /\ LowWaterMark < HighWaterMark
  /\ Chunk \in Nat \ {0} /\ Sends \in Nat /\ IsFiniteSet(Caller)

VARIABLES
  open,      \* channel.readyState = 'open' (and the connection is not closed)
  buffered,  \* channel.bufferedAmount
  events,    \* "low" and "close" events that are to be dispatched
  notify,    \* waiting sends the "low" event under way has still to call
  waiting,   \* callers in waitForDrain
  failed,    \* callers whose send has thrown
  left,      \* sends each caller has left
  expired    \* history: sends that went on since their wait had timed out

vars == <<open, buffered, events, notify, waiting, failed, left, expired>>

TypeOK ==
  /\ open \in BOOLEAN /\ buffered \in Nat /\ expired \in Nat
  /\ events \subseteq {"low", "close"}
  /\ waiting \subseteq Caller /\ failed \subseteq Caller \ waiting
  \* a send that waits has not been done
  /\ left \in [Caller -> 0 .. Sends] /\ \A c \in waiting : left[c] > 0
  /\ notify \subseteq Caller

Init ==
  /\ open = TRUE /\ buffered = 0 /\ expired = 0
  /\ events = {} /\ notify = {} /\ waiting = {} /\ failed = {}
  /\ left = [c \in Caller |-> Sends]

\* A task of the page starts: no event is being dispatched.
Idle == notify = {}
------------------------------------------------------------------------------
\* Mutant: the buffer may be filled up to the mark before a send waits.
ShouldWaitAbove == buffered > HighWaterMark

ShouldWait == buffered >= HighWaterMark

\* channel.send, after the check of readyState at the end of send.
GoOn(c) ==
  IF open
  THEN /\ buffered' = buffered + Chunk
       /\ left' = [left EXCEPT ![c] = @ - 1]
       /\ UNCHANGED failed
  ELSE /\ failed' = failed \cup {c}
       /\ UNCHANGED <<buffered, left>>

\* send is called; a caller whose send has thrown has given up.
Send(c) ==
  /\ c \notin waiting \cup failed /\ left[c] > 0
  /\ IF open /\ ShouldWait
     THEN waiting' = waiting \cup {c} /\ UNCHANGED <<buffered, left, failed>>
     ELSE GoOn(c) /\ UNCHANGED waiting
  /\ UNCHANGED <<open, events, notify, expired>>

\* cleanup and resolve: the send goes on.
Resolve(c) == c \in waiting /\ waiting' = waiting \ {c} /\ GoOn(c)

\* 'bufferedamountlow' is dispatched to the listeners registered by now.
LowEvent ==
  /\ Idle /\ "low" \in events
  /\ events' = events \ {"low"}
  /\ notify' = waiting
  /\ UNCHANGED <<open, buffered, waiting, failed, left, expired>>

OnLow(c) ==
  /\ c \in notify
  /\ notify' = notify \ {c}
  /\ Resolve(c)
  /\ UNCHANGED <<open, events, expired>>

\* The interval timer; it does nothing once the channel is not open.
Poll(c) ==
  /\ Idle /\ open /\ buffered <= LowWaterMark
  /\ Resolve(c)
  /\ UNCHANGED <<open, events, notify, expired>>

\* Mutant: no timeout when the channel is gone, as the poll has it.
TimeOutIfOpen(c) ==
  /\ Idle /\ open
  /\ Resolve(c)
  /\ expired' = IF open THEN expired + 1 ELSE expired
  /\ UNCHANGED <<open, events, notify>>

\* Mutant: the timeout leaves the listeners registered.
TimeOutNoCleanup(c) ==
  /\ Idle /\ c \in waiting
  /\ GoOn(c)
  /\ expired' = IF open THEN expired + 1 ELSE expired
  /\ UNCHANGED <<open, events, notify, waiting>>

\* The timeout resolves: "proceed to avoid permanent deadlock".
TimeOut(c) ==
  /\ Idle
  /\ Resolve(c)
  /\ expired' = IF open THEN expired + 1 ELSE expired
  /\ UNCHANGED <<open, events, notify>>

\* 'close' and 'error' reject whoever waits; an 'error' that is a harmless abort
\* resolves, and the send then finds that the channel is not open.
CloseEvent ==
  /\ Idle /\ "close" \in events
  /\ events' = events \ {"close"}
  /\ failed' = failed \cup waiting
  /\ waiting' = {}
  /\ UNCHANGED <<open, buffered, notify, left, expired>>

\* The network takes bytes from the buffer.  Browsers "sometimes delay or drop"
\* the event; one is under way at a time.
Drain ==
  /\ Idle /\ open
  /\ buffered' \in 0 .. buffered - 1
  /\ \/ UNCHANGED events
     \/ /\ buffered > LowWaterMark /\ buffered' <= LowWaterMark
        /\ events' = events \cup {"low"}
  /\ UNCHANGED <<open, notify, waiting, failed, left, expired>>

\* The peer, the network or close() of the connection closes the channel; a page
\* that closes its own connection gets no event from the browser.
ChannelCloses ==
  /\ Idle /\ open /\ open' = FALSE
  /\ \/ UNCHANGED events
     \/ events' = events \cup {"close"}
  /\ UNCHANGED <<buffered, notify, waiting, failed, left, expired>>

Next ==
  \/ \E c \in Caller : Send(c) \/ OnLow(c) \/ Poll(c) \/ TimeOut(c)
  \/ LowEvent \/ CloseEvent \/ Drain \/ ChannelCloses

Spec == Init /\ [][Next]_vars

\* The timers of the page run and it completes the dispatch of an event; nothing
\* is assumed of the network and of the events.
FairSpec ==
  Spec /\ \A c \in Caller : WF_vars(OnLow(c)) /\ WF_vars(Poll(c)) /\ WF_vars(TimeOut(c))
------------------------------------------------------------------------------
\* The buffer never holds more than one send above the mark, one for each caller
\* an event may release, and one for each wait that timed out while the network
\* took nothing: memory stays bounded by what the code's marks say.
BufferBound ==
  buffered < HighWaterMark + (Cardinality(Caller) + 1 + expired) * Chunk

\* No send waits for ever, whatever becomes of the channel and of its events.
SendSettles == \A c \in Caller : (c \in waiting) ~> (c \notin waiting)
==============================================================================
