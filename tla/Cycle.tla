-------------------------------- MODULE Cycle --------------------------------
(***************************************************************************)
(* cycle.Cycle and the handlers that start and stop it: a goroutine puts   *)
(* the next window on a channel of one event at each tick, another takes   *)
(* events off it and focuses their window in the session manager, while    *)
(* other requests create and close windows.                                *)
(***************************************************************************)
EXTENDS SessionManager

CONSTANTS Cycles,       \* the cycles ever started
          NoCycle,
          Plans         \* window lists a request may give

ASSUME NoCycleAssumption == NoCycle \notin Cycles
ASSUME PlansAssumption == Plans \subseteq Seq(Names) \ {<<>>}

VARIABLES current,      \* whose cancel function Server.cycleCancel holds
          shownPlan,    \* Server.cycleState.Windows
          plan,         \* Cycle.windows
          index,        \* Cycle.index, counted from 0
          cancelled,    \* the cycles whose context is done
          ticker,       \* where the ticking goroutine stands: "off", "first", "wait", "done"
          channel,      \* the events in the channel
          shut,         \* is it closed?
          focuser,      \* where the other one stands: "off", "receive", "focus", "tell", "done"
          held          \* the event it holds

cycvars  == <<current, shownPlan, plan, index, cancelled, ticker, channel, shut, focuser, held>>
cyclevars == <<mvars, cycvars>>

CycleInit == /\ ManagerInit
             /\ current = NoCycle
             /\ shownPlan = <<>>
             /\ plan = [c \in Cycles |-> <<>>]
             /\ index = [c \in Cycles |-> 0]
             /\ cancelled = {}
             /\ ticker = [c \in Cycles |-> "off"]
             /\ channel = [c \in Cycles |-> <<>>]
             /\ shut = [c \in Cycles |-> FALSE]
             /\ focuser = [c \in Cycles |-> "off"]
             /\ held = [c \in Cycles |-> NoName]

-----------------------------------------------------------------------------
(* The handlers. *)

\* handleCycleStart, under cycleMu; the goroutines are started after it.
CycleStart(c, windowList) ==
    /\ plan[c] = <<>>
    /\ cancelled' = cancelled \cup ({current} \ {NoCycle})
    /\ current' = c
    /\ shownPlan' = windowList
    /\ plan' = [plan EXCEPT ![c] = windowList]
    /\ UNCHANGED <<mvars, index, ticker, channel, shut, focuser, held>>

Run(c) == /\ plan[c] # <<>> /\ ticker[c] = "off"
          /\ ticker' = [ticker EXCEPT ![c] = "first"]
          /\ focuser' = [focuser EXCEPT ![c] = "receive"]
          /\ UNCHANGED <<mvars, current, shownPlan, plan, index, cancelled, channel, shut, held>>

\* handleCycleStop.
CycleStop == /\ current # NoCycle
             /\ cancelled' = cancelled \cup {current}
             /\ current' = NoCycle
             /\ UNCHANGED <<mvars, shownPlan, plan, index, ticker, channel, shut, focuser, held>>

-----------------------------------------------------------------------------
(* The ticking goroutine. *)

Sends(c) == channel' = [channel EXCEPT ![c] = <<plan[c][index'[c] + 1]>>]

\* The first window goes out at once, unless the cycle is cancelled by then; if
\* both can happen either may.
First(c) == /\ ticker[c] = "first"
            /\ UNCHANGED index
            /\ Sends(c)
            /\ ticker' = [ticker EXCEPT ![c] = "wait"]
            /\ UNCHANGED <<mvars, current, shownPlan, plan, cancelled, shut, focuser, held>>

\* A tick; the window is skipped while the event before is still in the channel.
TickerTicks(c) ==
    /\ ticker[c] = "wait"
    /\ index' = [index EXCEPT ![c] = (@ + 1) % Len(plan[c])]
    /\ IF channel[c] = <<>> THEN Sends(c) ELSE UNCHANGED channel
    /\ UNCHANGED <<mvars, current, shownPlan, plan, cancelled, ticker, shut, focuser, held>>

TickerEnds(c) == /\ ticker[c] \in {"first", "wait"} /\ c \in cancelled
                 /\ ticker' = [ticker EXCEPT ![c] = "done"]
                 /\ shut' = [shut EXCEPT ![c] = TRUE]
                 /\ UNCHANGED <<mvars, current, shownPlan, plan, index, cancelled, channel, focuser, held>>

-----------------------------------------------------------------------------
(* The goroutine of the handler. *)

Receive(c) == /\ focuser[c] = "receive" /\ channel[c] # <<>>
              /\ held' = [held EXCEPT ![c] = Head(channel[c])]
              /\ channel' = [channel EXCEPT ![c] = <<>>]
              /\ focuser' = [focuser EXCEPT ![c] = "focus"]
              /\ UNCHANGED <<mvars, current, shownPlan, plan, index, cancelled, ticker, shut>>

\* A faulty form: at a window that is not there the goroutine gives up waiting
\* for events, and does not end either.
Focus_Hangs(c) == /\ focuser[c] = "focus"
                  /\ FocusWindow(held[c])
                  /\ focuser' = [focuser EXCEPT ![c] = "tell"]
                  /\ UNCHANGED <<current, shownPlan, plan, index, cancelled, ticker, channel, shut, held>>

\* FocusWindow; a window that is not there is skipped.
Focus(c) == /\ focuser[c] = "focus"
            /\ \/ /\ FocusWindow(held[c])
                  /\ focuser' = [focuser EXCEPT ![c] = "tell"]
               \/ /\ ~HasWindow(held[c])
                  /\ focuser' = [focuser EXCEPT ![c] = "receive"]
                  /\ UNCHANGED mvars
            /\ UNCHANGED <<current, shownPlan, plan, index, cancelled, ticker, channel, shut, held>>

\* broadcastLayoutUpdate.
Tell(c) == /\ focuser[c] = "tell"
           /\ focuser' = [focuser EXCEPT ![c] = "receive"]
           /\ UNCHANGED <<mvars, current, shownPlan, plan, index, cancelled, ticker, channel, shut, held>>

FocuserEnds(c) == /\ focuser[c] = "receive" /\ channel[c] = <<>> /\ shut[c]
                  /\ focuser' = [focuser EXCEPT ![c] = "done"]
                  /\ UNCHANGED <<mvars, current, shownPlan, plan, index, cancelled, ticker, channel, shut, held>>

-----------------------------------------------------------------------------
Goroutines(c) == Run(c) \/ First(c) \/ Receive(c) \/ Focus(c) \/ Tell(c) \/ FocuserEnds(c)

\* What other requests do to the windows meanwhile.
OtherRequests == /\ \E name \in Names : \/ \E ref \in WinRefs : CreateWindow(name, ref)
                                        \/ CloseWindow(name)
                                        \/ FocusWindow(name)
                 /\ UNCHANGED cycvars

CycleNext == \/ \E c \in Cycles : \/ \E w \in Plans : CycleStart(c, w)
                                  \/ Goroutines(c) \/ TickerTicks(c) \/ TickerEnds(c)
             \/ CycleStop
             \/ OtherRequests

\* Each goroutine runs on; a select that finds both the tick and the end of the
\* context ready chooses at random, so it cannot pass over the end for ever.
CycleFairness == \A c \in Cycles : /\ WF_cyclevars(Run(c) \/ First(c))
                                   /\ WF_cyclevars(Receive(c) \/ Focus(c) \/ Tell(c) \/ FocuserEnds(c))
                                   /\ SF_cyclevars(TickerEnds(c))

CycleSpec == CycleInit /\ [][CycleNext]_cyclevars /\ CycleFairness

-----------------------------------------------------------------------------
\* Of a cycle that was stopped or replaced nothing remains: both its goroutines
\* end, with an event left in the channel or a window that is gone.
CyclesEnd == \A c \in Cycles : c \in cancelled ~> ticker[c] = "done" /\ focuser[c] = "done"
=============================================================================
