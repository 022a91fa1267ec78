---------------------------- MODULE LinkMonitor ----------------------------
(***************************************************************************)
(* The cable as the firmware sees it: ethernet_link_thread reads the PHY   *)
(* and sets the flags of the network interface, and the default task, in   *)
(* app_net_poll, reads one flag, logs its changes, sets the other flag and *)
(* blinks.  The tasks log through Logging; one processor runs the ready    *)
(* task of the highest priority, with priority inheritance and, between    *)
(* tasks of one priority, time slices that may end at any step.            *)
(*                                                                         *)
(* External: the PHY, packets, the end of a delay or time-out, the tests.  *)
(***************************************************************************)
EXTENDS Logging, Sequences

CONSTANTS Speeds,           \* speed and duplex of a link
          BootSpeed,        \* what low_level_init takes while negotiating
          QueueLength,      \* APP_COMMAND_QUEUE_LENGTH
          Cases             \* bounds: what may happen, in sets of behaviours

ASSUME LinkAssumption ==
    /\ Speeds \cap {"down", "negotiating", "stopped", NONE} = {}
    /\ BootSpeed \in Speeds
    /\ QueueLength \in Nat \ {0}
    /\ \A c \in Cases : /\ c.boot \subseteq Speeds \cup {"down", "negotiating"}
                        /\ c.packets \in Nat /\ c.changes \in Nat
                        /\ c.silences \in Nat

Tasks == Loggers \cup {"link"}
Setters == {"default", "link"}    \* the tasks that set flags

VARIABLES
    pc,                     \* what a task does when it is out of Logging
    left,                   \* what may still happen, of one of the Cases
    commands, running,      \* commands by the stage they are in
    idled,                  \* history: when the receives have timed out
    phy,                    \* what the PHY would tell
    flags,                  \* flags of the network interface
    todo, copy,             \* the flags to set, the flags as they were read
    seen, speed,            \* PHYLinkState, speed and duplex of the link thread
    mac,                    \* the MAC: stopped, or started at a speed
    linkNow, last, led,     \* link_now, last_link_state, LD2
    excused                 \* history: the MAC may have a wrong speed

stages == <<left, commands, running, idled>>
thread == <<seen, speed, mac>>
poll == <<linkNow, last, led>>
setting == <<flags, todo, copy>>
network == <<phy, thread, poll, setting, excused>>
linkVars == <<pc, stages, network>>
vars == <<logVars, linkVars>>

AllDown == [up |-> FALSE, link |-> FALSE]

\* low_level_init and MX_LWIP_Init: the interface is up, cable or not.
Init ==
    /\ LogInit
    /\ pc = [t \in Tasks |-> CASE t = "default" -> "init"
                               [] t = "link"    -> "read"
                               [] OTHER         -> "receive"]
    /\ \E c \in Cases : left = c /\ phy \in c.boot
    /\ commands = 0 /\ running = 0
    /\ idled = "never"
    /\ flags = [up |-> TRUE, link |-> phy # "down"]
    /\ todo = [t \in Setters |-> <<>>]
    /\ copy = [t \in Setters |-> AllDown]
    /\ seen = phy /\ speed = NONE
    /\ mac = CASE phy = "down"        -> "stopped"
               [] phy = "negotiating" -> BootSpeed
               [] OTHER               -> phy
    /\ linkNow = FALSE /\ last = FALSE /\ led = FALSE
    /\ excused = (phy = "negotiating")
-----------------------------------------------------------------------------
(* The scheduler *)

Priority(t) == IF t \in {"default", "tcpip"} THEN 3 ELSE 2

Out(t) == t \notin {u \in Loggers : at[u] # "out"}

\* A task that is out waits for a delay to end, a packet, or a queue.
Waits(t) == /\ Out(t)
            /\ \/ pc[t] = "delay"
               \/ t = "tcpip" /\ pc[t] = "receive"
               \/ t = "tcpip" /\ pc[t] = "full" /\ commands = QueueLength
               \/ t = "dispatcher" /\ pc[t] = "receive" /\ commands = 0
               \/ t = "worker" /\ pc[t] = "receive" /\ running = 0

Ready(t) == ~Waits(t) /\ ~(t \in Loggers /\ Blocked(t))

\* The holder of a mutex inherits the priority of a task that waits for it.
Inherited(t) == \E u \in Loggers : /\ Blocked(u) /\ held[wants[u]] = t
                                   /\ Priority(u) = 3

Urgent(t) == Priority(t) = 3 \/ Inherited(t)

Scheduled(t) == Ready(t) /\ (Urgent(t) \/ \A u \in Tasks : Ready(u) => ~Urgent(u))

Goto(t, place) == pc' = [pc EXCEPT ![t] = place]
-----------------------------------------------------------------------------
(* The default task *)

\* app_net_init, after which packets are received.
NetInit == /\ pc["default"] = "init"
           /\ last' = flags.link
           /\ Goto("default", "print")
           /\ UNCHANGED <<logVars, stages, phy, thread, linkNow, led, setting,
                          excused>>

\* "Network initialized", "Start main loop": printf, without the mutex.
BootPrint == /\ pc["default"] \in {"print", "print again"}
             /\ Write("default")
             /\ Goto("default", IF pc["default"] = "print" THEN "print again"
                                                           ELSE "poll")
             /\ UNCHANGED <<stages, phy, thread, poll, setting, excused>>

Poll == /\ pc["default"] = "poll"
        /\ linkNow' = flags.link
        /\ \/ /\ linkNow' # last
              /\ last' = linkNow'
              /\ Log("default")
              /\ Goto("default", "changed")
           \/ /\ linkNow' = last
              /\ Goto("default", "blink")
              /\ UNCHANGED <<logVars, last>>
        /\ UNCHANGED <<stages, phy, thread, led, setting, excused>>

\* Mutant: the LED is left as the last blinking left it.
ChangedNoLed ==
    /\ pc["default"] = "changed"
    /\ todo' = [todo EXCEPT !["default"] = << <<"up", linkNow>> >>]
    /\ Goto("default", "flags")
    /\ UNCHANGED <<logVars, stages, phy, thread, poll, flags, copy, excused>>

\* The change is logged; what follows is about the flag as it was before.
Changed == /\ pc["default"] = "changed"
           /\ led' = (led /\ ~linkNow)
           /\ todo' = [todo EXCEPT !["default"] = << <<"up", linkNow>> >>]
           /\ Goto("default", "flags")
           /\ UNCHANGED <<logVars, stages, phy, thread, linkNow, last, flags,
                          copy, excused>>

Blink == /\ pc["default"] = "blink"
         /\ led' = IF linkNow THEN led ELSE ~led
         /\ Goto("default", "delay")
         /\ UNCHANGED <<logVars, stages, phy, thread, linkNow, last, setting,
                        excused>>
-----------------------------------------------------------------------------
(* The flags of the interface, which two tasks set without a lock *)

\* netif_set_up, _down, _link_up, _link_down: a flag that must change is changed
\* in a copy, which is then stored.
FlagLoad(t) ==
    /\ pc[t] = "flags" /\ todo[t] # <<>>
    /\ LET flag == Head(todo[t])[1]
           value == Head(todo[t])[2]
       IN  \/ /\ flags[flag] = value
              /\ todo' = [todo EXCEPT ![t] = Tail(@)]
              /\ UNCHANGED <<copy, pc>>
           \/ /\ flags[flag] # value
              /\ copy' = [copy EXCEPT ![t] = [flags EXCEPT ![flag] = value]]
              /\ Goto(t, "store")
              /\ UNCHANGED todo
    /\ UNCHANGED <<logVars, stages, phy, thread, poll, flags, excused>>

FlagStore(t) == /\ pc[t] = "store"
                /\ flags' = copy[t]
                /\ copy' = [copy EXCEPT ![t] = AllDown]
                /\ todo' = [todo EXCEPT ![t] = Tail(@)]
                /\ Goto(t, "flags")
                /\ UNCHANGED <<logVars, stages, phy, thread, poll, excused>>

FlagsSet(t) == /\ pc[t] = "flags" /\ todo[t] = <<>>
               /\ Goto(t, IF t = "default" THEN "blink" ELSE "delay")
               /\ UNCHANGED <<logVars, stages, phy, thread, poll, setting, excused>>
-----------------------------------------------------------------------------
(* ethernet_link_thread *)

ReadPhy == /\ pc["link"] = "read"
           /\ seen' = phy
           /\ Goto("link", "test")
           /\ UNCHANGED <<logVars, stages, phy, speed, mac, poll, setting, excused>>

\* The link stays as it is.
LinkSame == /\ pc["link"] = "test"
            /\ \/ flags.link /\ seen # "down"
               \/ ~flags.link /\ seen = "down"
               \/ ~flags.link /\ seen = "negotiating" /\ speed = NONE
            /\ Goto("link", "delay")
            /\ UNCHANGED <<logVars, stages, phy, thread, poll, setting, excused>>

\* Mutant: the interface is set down and the link is left up.
LinkDownHalf ==
    /\ pc["link"] = "test" /\ flags.link /\ seen = "down"
    /\ mac' = "stopped"
    /\ todo' = [todo EXCEPT !["link"] = << <<"up", FALSE>> >>]
    /\ Goto("link", "flags")
    /\ UNCHANGED <<logVars, stages, phy, seen, speed, poll, flags, copy, excused>>

LinkDown == /\ pc["link"] = "test" /\ flags.link /\ seen = "down"
            /\ mac' = "stopped"
            /\ todo' = [todo EXCEPT !["link"] = << <<"up", FALSE>>, <<"link", FALSE>> >>]
            /\ Goto("link", "flags")
            /\ UNCHANGED <<logVars, stages, phy, seen, speed, poll, flags, copy,
                           excused>>

\* Mutant: the interface is left to app_net_poll.
LinkUpOnly ==
    /\ pc["link"] = "test" /\ ~flags.link /\ seen # "down"
    /\ seen = "negotiating" => speed # NONE
    /\ speed' = IF seen \in Speeds THEN seen ELSE speed
    /\ excused' = (excused \/ seen = "negotiating")
    /\ mac' = speed'
    /\ todo' = [todo EXCEPT !["link"] = << <<"link", TRUE>> >>]
    /\ Goto("link", "flags")
    /\ UNCHANGED <<logVars, stages, phy, seen, poll, flags, copy>>

\* linkchanged is never reset: once a link has been seen, one that is still
\* negotiating starts with the speed of the last.
LinkUp == /\ pc["link"] = "test" /\ ~flags.link /\ seen # "down"
          /\ seen = "negotiating" => speed # NONE
          /\ speed' = IF seen \in Speeds THEN seen ELSE speed
          /\ excused' = (excused \/ seen = "negotiating")
          /\ mac' = speed'
          /\ todo' = [todo EXCEPT !["link"] = << <<"up", TRUE>>, <<"link", TRUE>> >>]
          /\ Goto("link", "flags")
          /\ UNCHANGED <<logVars, stages, phy, seen, poll, flags, copy>>
-----------------------------------------------------------------------------
(* The tasks of the pipeline, as far as they log *)

\* Mutant: the queue takes one command more.
TcpIpQueueTooMany ==
    /\ pc["tcpip"] \in {"queue", "full"}
    /\ \/ /\ commands <= QueueLength
          /\ commands' = commands + 1
          /\ Goto("tcpip", "receive")
       \/ /\ commands > QueueLength /\ pc["tcpip"] = "queue"
          /\ Goto("tcpip", "full")
          /\ UNCHANGED commands
    /\ UNCHANGED <<network, logVars, left, running, idled>>

\* The receive callback: the queue takes the command, or the thread waits.
TcpIpQueue ==
    /\ pc["tcpip"] \in {"queue", "full"}
    /\ \/ /\ commands < QueueLength
          /\ commands' = commands + 1
          /\ Goto("tcpip", "receive")
       \/ /\ commands = QueueLength /\ pc["tcpip"] = "queue"
          /\ Goto("tcpip", "full")
          /\ UNCHANGED commands
    /\ UNCHANGED <<network, logVars, left, running, idled>>

\* Mutant: a command is logged when it has been dispatched.
DispatcherReceiveFirst ==
    /\ pc["dispatcher"] = "receive" /\ commands > 0
    /\ commands' = commands - 1
    /\ running' = running + 1
    /\ Log("dispatcher")
    /\ UNCHANGED <<network, pc, left, idled>>

\* A command is logged before it is dispatched.
DispatcherReceive ==
    /\ pc["dispatcher"] = "receive" /\ commands > 0
    /\ commands' = commands - 1
    /\ Log("dispatcher")
    /\ Goto("dispatcher", "dispatch")
    /\ UNCHANGED <<network, left, running, idled>>

\* The queue of the test takes the command, or it does not and that is logged.
Dispatch ==
    /\ pc["dispatcher"] = "dispatch"
    /\ Goto("dispatcher", "receive")
    /\ \/ running' = running + 1 /\ UNCHANGED logVars
       \/ Log("dispatcher") /\ UNCHANGED running
    /\ UNCHANGED <<network, left, commands, idled>>

\* The tests and the sender: they log some of what they do.
Work == /\ pc["worker"] = "receive" /\ running > 0
        /\ running' = running - 1
        /\ Log("worker") \/ UNCHANGED logVars
        /\ UNCHANGED <<network, pc, left, commands, idled>>

\* A receive has failed, or a send: that is logged.
LogFailure(t) == /\ t \in Loggers /\ pc[t] = "failed"
                 /\ Log(t)
                 /\ Goto(t, "receive")
                 /\ UNCHANGED <<network, stages>>
-----------------------------------------------------------------------------
(* What happens to the tasks *)

DelayEnds(t) == /\ t \in Setters /\ pc[t] = "delay"
                /\ Goto(t, IF t = "default" THEN "poll" ELSE "read")
                /\ UNCHANGED <<logVars, stages, network>>

PacketArrives == /\ pc["tcpip"] = "receive" /\ Out("tcpip")
                 /\ pc["default"] # "init"
                 /\ left.packets > 0
                 /\ left' = [left EXCEPT !.packets = @ - 1]
                 /\ Goto("tcpip", "queue")
                 /\ UNCHANGED <<network, logVars, commands, running, idled>>

\* The 100 ms of the TCP/IP thread are over: the dispatcher has been held up,
\* by a transmission, for the mutex, or by the queue of a test.
QueueTimesOut ==
    /\ pc["tcpip"] = "full" /\ commands = QueueLength
    /\ \/ at["dispatcher"] \in {"lock", "send"}
       \/ at["dispatcher"] = "out" /\ pc["dispatcher"] = "dispatch"
    /\ Goto("tcpip", "failed")
    /\ UNCHANGED <<network, logVars, stages>>

\* 71.6 minutes without a command: the receives of the dispatcher and of the
\* sender, which began at the same tick after the start, fail at the same tick.
ReceivesTimeOut ==
    /\ left.silences > 0
    /\ left' = [left EXCEPT !.silences = @ - 1]
    /\ \A t \in Loggers : at[t] = "out"
    /\ commands + running = 0 /\ pc["default"] = "delay"
    /\ \A t \in Loggers \ {"default"} : pc[t] = "receive"
    /\ idled' = IF mutex = NONE \/ idled = "first" THEN "first" ELSE "later"
    /\ pc' = [pc EXCEPT !["dispatcher"] = "failed", !["worker"] = "failed"]
    /\ UNCHANGED <<network, logVars, commands, running>>

\* The cable is plugged in or pulled out, the link is negotiated.  A link that
\* changes before the thread has seen it down has changed behind its back.
PhyChanges ==
    /\ left.changes > 0
    /\ left' = [left EXCEPT !.changes = @ - 1]
    /\ phy' \in CASE phy = "down"        -> Speeds \cup {"negotiating"}
                  [] phy = "negotiating" -> Speeds \cup {"down"}
                  [] OTHER               -> {"down"}
    /\ excused' = (excused \/ (phy = "down" /\ seen # "down"))
    /\ UNCHANGED <<logVars, pc, commands, running, idled, thread, poll, setting>>
-----------------------------------------------------------------------------
OwnStep(t) ==
    \/ t = "default" /\ (NetInit \/ BootPrint \/ Poll \/ Changed \/ Blink)
    \/ t = "link" /\ (ReadPhy \/ LinkSame \/ LinkDown \/ LinkUp)
    \/ t \in Setters /\ (FlagLoad(t) \/ FlagStore(t) \/ FlagsSet(t))
    \/ t = "tcpip" /\ TcpIpQueue
    \/ t = "dispatcher" /\ (DispatcherReceive \/ Dispatch)
    \/ t = "worker" /\ Work
    \/ LogFailure(t)

\* A failed assertion disables the interrupts and never returns.
Step(t) == /\ ~stuck /\ Scheduled(t)
           /\ \/ t \in Loggers /\ LogStep(t) /\ UNCHANGED linkVars
              \/ Out(t) /\ OwnStep(t)

Event == /\ ~stuck
         /\ \/ PacketArrives \/ QueueTimesOut \/ ReceivesTimeOut \/ PhyChanges
            \/ \E t \in Setters : DelayEnds(t)

Next == Event \/ \E t \in Tasks : Step(t)

Spec == Init /\ [][Next]_vars

\* Delays end.  A task that is ready again and again runs: the tasks of higher
\* priority sleep most of the time, those of its own have time slices.
FairSpec == /\ Spec
            /\ \A t \in Tasks : SF_vars(Step(t))
            /\ \A t \in Setters : WF_vars(~stuck /\ DelayEnds(t))
-----------------------------------------------------------------------------
TypeOK ==
    /\ LogTypeOK
    /\ pc \in [Tasks -> {"init", "print", "print again", "poll", "changed", "flags",
                         "store", "blink", "delay", "read", "test", "receive",
                         "queue", "full", "dispatch", "failed"}]
    /\ commands \in 0 .. QueueLength /\ running \in Nat
    /\ idled \in {"never", "first", "later"}
    /\ phy \in Speeds \cup {"down", "negotiating"}
    /\ flags \in [{"up", "link"} -> BOOLEAN]
    /\ \A t \in Setters : /\ Len(todo[t]) <= 2
                          /\ copy[t] \in [{"up", "link"} -> BOOLEAN]
    /\ seen \in Speeds \cup {"down", "negotiating"}
    /\ speed \in Speeds \cup {NONE} /\ mac \in Speeds \cup {"stopped"}
    /\ linkNow \in BOOLEAN /\ last \in BOOLEAN /\ led \in BOOLEAN
    /\ excused \in BOOLEAN

\* The first two logs were not those of two tasks of one priority at once.
MutexMade == idled # "first"

\* No message is refused, no two are mixed on the line, and the kernel's assertion
\* holds, that a mutex is given by its holder, although printf_mutex is read anew
\* for that: also when the default task prints at the start without the mutex, and
\* when the first two logs create a mutex each, because the second one is then of
\* a higher priority and over before the first goes on.
MessagesWhole ==
    MutexMade => /\ ~refused /\ ~stuck
                 /\ \A t, u \in Loggers : {at[t], at[u]} \subseteq {"test", "send"} => t = u

\* The link is up only over a MAC that runs, except while the link thread is
\* setting the flags.
LinkUpRuns ==
    flags.link /\ mac = "stopped" => pc["link"] \in {"flags", "store"}

\* A task that logs comes back from it.
LogEnds == \A t \in Loggers : at[t] # "out" ~> at[t] = "out" \/ ~MutexMade

\* The interface as it should be for this state of the PHY: without a cable the
\* link is down, with one both flags are up and the MAC runs at its speed,
\* unless the link was brought up, or changed, behind the thread's back.
Follows == CASE phy = "down"   -> ~flags.link
             [] phy \in Speeds -> /\ flags.link /\ flags.up
                                  /\ mac = phy \/ excused
             [] OTHER          -> TRUE

\* When the cable is left alone the interface follows it at last, whatever the
\* default task and the link thread have stored over each other's changes, and
\* although app_net_poll misses a link that is down for less than its period.
NetworkFollowsCable == <>[](stuck \/ Follows)

\* At last the LED blinks when the cable is out and is dark when it is in.
LedShowsCable ==
    \/ <>stuck
    \/ /\ <>[](phy \in Speeds) => <>[]~led
       /\ <>[](phy = "down") => []<>led /\ []<>~led
=============================================================================
