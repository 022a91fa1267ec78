----------------------------- MODULE LinkProofs -----------------------------
(***************************************************************************)
(* For any speeds and queue length, and any cable changes, packets and     *)
(* silences: the link of the interface is up only over a MAC that runs,    *)
(* and the messages that the tasks log are whole.  Neither the flags nor   *)
(* the creation of the mutex has a lock; both are kept in order by the     *)
(* priorities.  The link thread does not run while the default task is     *)
(* between reading and storing the flags, and the dispatcher does not      *)
(* create a mutex while the default task is in the one it has created.     *)
(* Once both tasks have seen the cable, the interface follows it; and a    *)
(* task that waits to log waits for one that can run.                      *)
(***************************************************************************)
EXTENDS LinkMonitor, TLAPS

Pcs == {"init", "print", "print again", "poll", "changed", "flags", "store", "blink",
        "delay", "read", "test", "receive", "queue", "full", "dispatch", "failed"}
PhyStates == Speeds \cup {"down", "negotiating"}
Flags == [{"up", "link"} -> BOOLEAN]
Settings == {"up", "link"} \X BOOLEAN

DataTypes ==
    /\ LogTypeOK
    /\ pc \in [Tasks -> Pcs]
    /\ commands \in 0 .. QueueLength /\ running \in Nat
    /\ idled \in {"never", "first", "later"}
    /\ phy \in PhyStates
    /\ flags \in Flags
    /\ todo \in [Setters -> Seq(Settings)]
    /\ \A t \in Setters : Len(todo[t]) <= 2 /\ (pc[t] = "store" => todo[t] # <<>>)
    /\ copy \in [Setters -> Flags]
    /\ seen \in PhyStates
    /\ speed \in Speeds \cup {NONE} /\ mac \in Speeds \cup {"stopped"}
    /\ linkNow \in BOOLEAN /\ last \in BOOLEAN /\ led \in BOOLEAN
    /\ excused \in BOOLEAN

\* The default task never changes the link flag.
DefaultInv ==
    /\ pc["default"] \in {"flags", "store"} =>
          /\ at["default"] = "out"
          /\ todo["default"] = <<>> \/ \E v \in BOOLEAN : todo["default"] = << <<"up", v>> >>
    /\ pc["default"] = "store" => copy["default"]["link"] = flags["link"]

\* What the link thread has still to set, and what it has read for that.
Going == { << <<"up", FALSE>>, <<"link", FALSE>> >>, << <<"link", FALSE>> >> }
Coming == { << <<"up", TRUE>>, <<"link", TRUE>> >>, << <<"link", TRUE>> >> }

LinkInv ==
    /\ pc["link"] \notin {"flags", "store"} => (mac = "stopped" => ~flags["link"])
    /\ pc["link"] \in {"flags", "store"} =>
          \/ todo["link"] \in Going /\ mac = "stopped"
          \/ todo["link"] \in Coming /\ mac \in Speeds
          \/ todo["link"] = <<>> /\ (mac = "stopped" => ~flags["link"])
    /\ pc["link"] = "store" =>
          \/ todo["link"][1][1] = "link" /\ copy["link"]["link"] = todo["link"][1][2]
          \/ todo["link"][1][1] = "up" /\ copy["link"]["link"] = flags["link"]
    /\ pc["link"] \in {"read", "test", "flags", "store", "delay"}

\* The mutex that a task is about to take exists.
WantsInv == \A t \in Loggers : /\ at[t] = "take" => mutex # NONE
                               /\ at[t] = "lock" => wants[t] \in Loggers

\* The mutex has been made and the dispatcher is not about to make another one.
Late == mutex # NONE /\ at["dispatcher"] # "create"

\* The default task has not come to its main loop.
Booting == pc["default"] \in {"init", "print", "print again"} \/ "default" \in raw

\* Who logs first: the default task alone, then it or the dispatcher.
PhaseInv ==
    /\ ~Late => /\ at["tcpip"] = "out" /\ at["worker"] = "out" /\ running = 0
                /\ \A t \in {"tcpip", "dispatcher", "worker"} : pc[t] # "failed"
                /\ pc["dispatcher"] = "dispatch" => at["dispatcher"] = "create"
    /\ Booting => /\ mutex = NONE /\ at["dispatcher"] = "out"
                  /\ at["default"] = "out" \/ "default" \in raw

Busy == {"test", "send", "give"}

\* The task that transmits is the holder of the mutex of this moment, or the
\* default task before there is a mutex.
OwnerInv ==
    /\ ~refused /\ ~stuck
    /\ raw \subseteq {"default"}
    /\ \A t \in raw : mutex = NONE /\ at[t] \in {"test", "send"}
    /\ mutex = NONE => \A t \in Loggers : /\ at[t] \in {"out", "create"} \/ t \in raw
                                          /\ held[t] = NONE
    /\ mutex # NONE => \A t \in Loggers : /\ at[t] \in Busy <=> held[mutex] = t
                                          /\ at[t] = "lock" => wants[t] = mutex
                                          /\ t # mutex => held[t] = NONE
    /\ \A t \in Loggers : at[t] = "create" => t \in {"default", "dispatcher"}
    /\ at["default"] = "create" => mutex = NONE
    /\ at["dispatcher"] = "create" => mutex \in {NONE, "default"}
    /\ uart = "BUSY" => \E t \in Loggers : at[t] = "send"

FlagsInv == DataTypes /\ WantsInv /\ DefaultInv /\ LinkInv
WholeInv == MutexMade => PhaseInv /\ OwnerInv

-----------------------------------------------------------------------------
LEMMA Constants == /\ QueueLength \in Nat \ {0}
                   /\ BootSpeed \in Speeds
                   /\ "stopped" \notin Speeds /\ "down" \notin Speeds
                   /\ "negotiating" \notin Speeds /\ NONE \notin Speeds
                   /\ Loggers \subseteq Tasks /\ Setters \subseteq Tasks
                   /\ "link" \notin Loggers
                   /\ "default" \in Setters /\ "link" \in Setters
  BY LinkAssumption DEF Tasks, Setters, Loggers

LEMMA FlagsRecord ==
    ASSUME NEW a \in BOOLEAN, NEW b \in BOOLEAN PROVE [up |-> a, link |-> b] \in Flags
<1> DEFINE f == [up |-> a, link |-> b]
<1>1. f["up"] = a /\ f["link"] = b
  OBVIOUS
<1>2. DOMAIN f = {"up", "link"}
  OBVIOUS
<1>3. f = [x \in {"up", "link"} |-> f[x]]
  BY <1>2
<1>4. QED
  BY <1>1, <1>3 DEF Flags

LEMMA LogTypes ==
    ASSUME NEW t \in Loggers, LogTypeOK, LogStep(t) \/ Log(t) \/ Write(t)
    PROVE  LogTypeOK'
<1> USE DEF LogTypeOK, To
<1>1. CASE Log(t) \/ Write(t) \/ Create(t) \/ Take(t) \/ Lock(t)
  BY <1>1 DEF Log, Write, Create, Take, Lock
<1>2. CASE Test(t) \/ Send(t)
  BY <1>2 DEF Test, Send, Transmitted
<1>3. CASE Give(t)
  BY <1>3 DEF Give
<1>4. QED
  BY <1>1, <1>2, <1>3 DEF LogStep

LEMMA TypesSuffice == DataTypes => TypeOK
  BY Constants DEF DataTypes, TypeOK, Flags, PhyStates, Pcs

LEMMA TypeStart == Init => DataTypes
<1> SUFFICES ASSUME Init PROVE DataTypes
  OBVIOUS
<1>1. LogTypeOK
  BY DEF Init, LogInit, LogTypeOK, NONE, Loggers
<1>2. phy \in PhyStates
  BY LinkAssumption DEF Init, PhyStates
<1>3. pc \in [Tasks -> Pcs]
  <2>1. pc = [t \in Tasks |-> CASE t = "default" -> "init"
                                [] t = "link"    -> "read"
                                [] OTHER         -> "receive"]
    BY DEF Init
  <2>2. QED
    BY <2>1 DEF Pcs
<1>4. commands \in 0 .. QueueLength /\ running \in Nat
  BY Constants DEF Init
<1>5. flags \in Flags /\ AllDown \in Flags
  <2>1. flags = [up |-> TRUE, link |-> phy # "down"] /\ (phy # "down") \in BOOLEAN
    BY DEF Init
  <2>2. QED
    BY <2>1, FlagsRecord DEF AllDown
<1>6. /\ todo \in [Setters -> Seq(Settings)] /\ copy \in [Setters -> Flags]
      /\ \A t \in Setters : Len(todo[t]) <= 2 /\ pc[t] # "store"
  BY <1>5, Constants DEF Init
<1>7. mac \in Speeds \cup {"stopped"} /\ excused \in BOOLEAN
  BY <1>2, Constants DEF Init, PhyStates
<1>8. QED
  BY <1>1, <1>2, <1>3, <1>4, <1>5, <1>6, <1>7 DEF Init, DataTypes

\* The three steps that set a flag keep the types.
LEMMA SettingTypes ==
    ASSUME DataTypes, NEW t \in Setters, FlagLoad(t) \/ FlagStore(t) \/ FlagsSet(t)
    PROVE  DataTypes'
<1>0. t \in Tasks /\ todo[t] \in Seq(Settings) /\ Len(todo[t]) <= 2
  BY Constants DEF DataTypes
<1>1. \A p \in {"store", "flags", "blink", "delay"} : [pc EXCEPT ![t] = p] \in [Tasks -> Pcs]
  BY <1>0 DEF DataTypes, Pcs
<1>2. todo[t] # <<>> => /\ Tail(todo[t]) \in Seq(Settings) /\ Len(Tail(todo[t])) <= 2
                       /\ Head(todo[t])[1] \in {"up", "link"} /\ Head(todo[t])[2] \in BOOLEAN
  <2> SUFFICES ASSUME todo[t] # <<>>
               PROVE  /\ Tail(todo[t]) \in Seq(Settings) /\ Len(Tail(todo[t])) <= 2
                      /\ Head(todo[t])[1] \in {"up", "link"} /\ Head(todo[t])[2] \in BOOLEAN
    OBVIOUS
  <2>1. /\ Tail(todo[t]) \in Seq(Settings) /\ Len(Tail(todo[t])) = Len(todo[t]) - 1
        /\ Head(todo[t]) \in Settings /\ Len(todo[t]) \in Nat
    BY <1>0
  <2>2. QED
    BY <1>0, <2>1 DEF Settings
<1>3. CASE FlagLoad(t)
  <2>1. /\ todo' \in [Setters -> Seq(Settings)]
        /\ \A u \in Setters : Len(todo'[u]) <= 2 /\ (pc'[u] = "store" => todo'[u] # <<>>)
    BY <1>2, <1>3, Constants DEF FlagLoad, DataTypes, Goto
  <2>2. copy' \in [Setters -> Flags]
    <3>1. \A f \in {"up", "link"}, v \in BOOLEAN : [flags EXCEPT ![f] = v] \in Flags
      BY DEF DataTypes, Flags
    <3>2. \A c \in Flags : [copy EXCEPT ![t] = c] \in [Setters -> Flags]
      BY DEF DataTypes
    <3>3. QED
      BY <1>2, <1>3, <3>1, <3>2 DEF FlagLoad, DataTypes
  <2>3. pc' \in [Tasks -> Pcs]
    BY <1>1, <1>3 DEF FlagLoad, Goto, DataTypes
  <2>4. UNCHANGED <<logVars, stages, phy, thread, poll, flags, excused>>
    BY <1>3 DEF FlagLoad
  <2>5. QED
    BY <2>1, <2>2, <2>3, <2>4 DEF DataTypes, logVars, LogTypeOK, stages, thread, poll
<1>4. CASE FlagStore(t)
  <2>1. /\ todo' \in [Setters -> Seq(Settings)]
        /\ \A u \in Setters : Len(todo'[u]) <= 2 /\ (pc'[u] = "store" => todo'[u] # <<>>)
    BY <1>2, <1>4, Constants DEF FlagStore, DataTypes, Goto
  <2>2. flags' \in Flags /\ copy' \in [Setters -> Flags]
    BY <1>4, FlagsRecord DEF FlagStore, DataTypes, AllDown
  <2>3. pc' \in [Tasks -> Pcs]
    BY <1>1, <1>4 DEF FlagStore, Goto
  <2>4. UNCHANGED <<logVars, stages, phy, thread, poll, excused>>
    BY <1>4 DEF FlagStore
  <2>5. QED
    BY <2>1, <2>2, <2>3, <2>4 DEF DataTypes, logVars, LogTypeOK, stages, thread, poll
<1>5. CASE FlagsSet(t)
  <2>1. pc' \in [Tasks -> Pcs]
    BY <1>1, <1>5 DEF FlagsSet, Goto
  <2>2. UNCHANGED <<logVars, stages, phy, thread, poll, setting, excused>>
    BY <1>5 DEF FlagsSet
  <2>3. \A u \in Setters : pc'[u] = "store" => pc[u] = "store"
    BY <1>5, Constants DEF FlagsSet, Goto, DataTypes
  <2>4. QED
    BY <2>1, <2>2, <2>3 DEF DataTypes, logVars, LogTypeOK, stages, thread, poll, setting
<1>6. QED
  BY <1>3, <1>4, <1>5

LEMMA StepCases ==
    ASSUME Next
    PROVE  \/ PacketArrives \/ QueueTimesOut \/ ReceivesTimeOut \/ PhyChanges
           \/ \E t \in Setters : DelayEnds(t)
           \/ \E t \in Loggers : Scheduled(t) /\ LogStep(t) /\ UNCHANGED linkVars
           \/ Out("default") /\ (NetInit \/ BootPrint \/ Poll \/ Changed \/ Blink)
           \/ Scheduled("link") /\ (ReadPhy \/ LinkSame \/ LinkDown \/ LinkUp)
           \/ \E t \in Setters : /\ Scheduled(t) /\ Out(t)
                                 /\ FlagLoad(t) \/ FlagStore(t) \/ FlagsSet(t)
           \/ Scheduled("tcpip") /\ Out("tcpip") /\ TcpIpQueue
           \/ Scheduled("dispatcher") /\ Out("dispatcher") /\ (DispatcherReceive \/ Dispatch)
           \/ Scheduled("worker") /\ Out("worker") /\ Work
           \/ \E t \in Loggers : Scheduled(t) /\ Out(t) /\ LogFailure(t)
<1>1. CASE Event
  BY <1>1 DEF Event
<1>2. ASSUME NEW t \in Tasks, Step(t), t \in Loggers, LogStep(t), UNCHANGED linkVars
      PROVE  \E u \in Loggers : Scheduled(u) /\ LogStep(u) /\ UNCHANGED linkVars
  BY <1>2 DEF Step
<1>3. ASSUME NEW t \in Tasks, Scheduled(t), Out(t), OwnStep(t)
      PROVE  \/ Out("default") /\ (NetInit \/ BootPrint \/ Poll \/ Changed \/ Blink)
             \/ Scheduled("link") /\ (ReadPhy \/ LinkSame \/ LinkDown \/ LinkUp)
             \/ \E u \in Setters : /\ Scheduled(u) /\ Out(u)
                                   /\ FlagLoad(u) \/ FlagStore(u) \/ FlagsSet(u)
             \/ Scheduled("tcpip") /\ Out("tcpip") /\ TcpIpQueue
             \/ Scheduled("dispatcher") /\ Out("dispatcher") /\ (DispatcherReceive \/ Dispatch)
             \/ Scheduled("worker") /\ Out("worker") /\ Work
             \/ \E u \in Loggers : Scheduled(u) /\ Out(u) /\ LogFailure(u)
  BY <1>3 DEF OwnStep, LogFailure
<1>4. QED
  BY <1>1, <1>2, <1>3 DEF Next, Step

\* Every step keeps the types.
LEMMA TypeStep == DataTypes /\ Next => DataTypes'
<1> SUFFICES ASSUME DataTypes, Next PROVE DataTypes'
  OBVIOUS
<1> DEFINE PcTypes == /\ pc' \in [Tasks -> Pcs]
                      /\ \A t \in Setters : pc'[t] = "store" => pc[t] = "store"
           Move(t, p) == pc' = [pc EXCEPT ![t] = p]
<1>m. ASSUME NEW t \in Tasks, NEW p \in Pcs, p # "store", Move(t, p)
      PROVE  PcTypes /\ pc'[t] = p
  BY <1>m, Constants DEF DataTypes
<1>u. UNCHANGED pc => PcTypes
  BY DEF DataTypes
<1>p. {"print", "print again", "poll", "changed", "flags", "blink", "delay", "read", "test",
       "receive", "queue", "full", "dispatch", "failed"} \subseteq Pcs
  BY DEF Pcs
<1>t. {"default", "link", "tcpip", "dispatcher", "worker"} \subseteq Tasks
      /\ {"default", "tcpip", "dispatcher", "worker"} = Loggers
      /\ Setters = {"default", "link"} /\ Loggers \subseteq Tasks
  BY DEF Tasks, Loggers, Setters
\* A step that sets no flags and moves a task elsewhere than to a store.
<1>k. ASSUME PcTypes,
             LogTypeOK', UNCHANGED setting,
             commands' \in 0 .. QueueLength, running' \in Nat,
             idled' \in {"never", "first", "later"}, phy' \in PhyStates, seen' \in PhyStates,
             speed' \in Speeds \cup {NONE}, mac' \in Speeds \cup {"stopped"},
             linkNow' \in BOOLEAN, last' \in BOOLEAN, led' \in BOOLEAN, excused' \in BOOLEAN
      PROVE  DataTypes'
  BY <1>k DEF DataTypes, setting
<1>l. UNCHANGED logVars => LogTypeOK'
  BY DEF DataTypes, LogTypeOK, logVars
<1> HIDE DEF PcTypes, Move
<1>1. CASE PacketArrives \/ QueueTimesOut \/ ReceivesTimeOut
  <2>1. PcTypes
    <3>1. CASE PacketArrives \/ QueueTimesOut
      <4>1. Move("tcpip", "queue") \/ Move("tcpip", "failed")
        BY <3>1 DEF PacketArrives, QueueTimesOut, Goto, Move
      <4>2. QED
        BY <1>m, <1>p, <1>t, <4>1
    <3>2. CASE ReceivesTimeOut
      <4>1. pc' = [pc EXCEPT !["dispatcher"] = "failed", !["worker"] = "failed"]
        BY <3>2 DEF ReceivesTimeOut
      <4>2. pc' \in [Tasks -> Pcs]
        BY <1>p, <4>1 DEF DataTypes
      <4>3. \A t \in Setters : pc'[t] = pc[t]
        BY <1>t, <4>1 DEF DataTypes
      <4>4. QED
        BY <4>2, <4>3 DEF PcTypes
    <3>3. QED
      BY <1>1, <3>1, <3>2
  <2>2. /\ UNCHANGED <<network, logVars, commands, running>>
        /\ idled' \in {"never", "first", "later"}
    BY <1>1 DEF PacketArrives, QueueTimesOut, ReceivesTimeOut, stages, DataTypes
  <2>3. QED
    BY <1>k, <1>l, <2>1, <2>2 DEF network, thread, poll, setting, DataTypes
<1>2. CASE PhyChanges
  <2>1. phy' \in PhyStates /\ excused' \in BOOLEAN
    BY <1>2 DEF PhyChanges, PhyStates, DataTypes
  <2>2. UNCHANGED <<logVars, pc, commands, running, idled, thread, poll, setting>>
    BY <1>2 DEF PhyChanges
  <2>3. QED
    BY <1>k, <1>l, <1>u, <2>1, <2>2 DEF thread, poll, DataTypes
<1>3. ASSUME NEW t \in Setters, DelayEnds(t) PROVE DataTypes'
  <2>1. PcTypes
    <3>1. t \in Tasks /\ (Move(t, "poll") \/ Move(t, "read"))
      BY <1>3, Constants DEF DelayEnds, Goto, Move
    <3>2. QED
      BY <1>m, <1>p, <3>1
  <2>2. UNCHANGED <<logVars, stages, network>>
    BY <1>3 DEF DelayEnds
  <2>3. QED
    BY <1>k, <1>l, <2>1, <2>2 DEF stages, network, thread, poll, DataTypes
<1>4. ASSUME NEW t \in Loggers, LogStep(t), UNCHANGED linkVars PROVE DataTypes'
  <2>1. LogTypeOK'
    BY <1>4, LogTypes DEF DataTypes
  <2>2. QED
    BY <1>k, <1>u, <1>4, <2>1 DEF linkVars, stages, network, thread, poll, DataTypes
<1>5. CASE NetInit \/ Poll \/ Blink \/ BootPrint
  <2>1. PcTypes
    <3>1. \E p \in {"print", "print again", "poll", "changed", "blink", "delay"} :
            Move("default", p)
      BY <1>5 DEF NetInit, Poll, Blink, BootPrint, Goto, Move
    <3>2. QED
      BY <1>m, <1>p, <1>t, <3>1
  <2>2. linkNow' \in BOOLEAN /\ last' \in BOOLEAN /\ led' \in BOOLEAN
    BY <1>5 DEF NetInit, Poll, Blink, BootPrint, DataTypes, Flags, poll
  <2>3. LogTypeOK'
    <3>1. CASE UNCHANGED logVars
      BY <1>l, <3>1
    <3>2. CASE Log("default") \/ Write("default")
      BY <1>t, <3>2, LogTypes DEF DataTypes
    <3>3. QED
      BY <1>5, <3>1, <3>2 DEF NetInit, Poll, Blink, BootPrint
  <2>4. UNCHANGED <<stages, phy, thread, setting, excused>>
    BY <1>5 DEF NetInit, Poll, Blink, BootPrint
  <2>5. QED
    BY <1>k, <2>1, <2>2, <2>3, <2>4 DEF stages, thread, DataTypes
<1>6. CASE Changed
  <2>1. PcTypes /\ pc'["default"] = "flags"
    <3>1. Move("default", "flags")
      BY <1>6 DEF Changed, Goto, Move
    <3>2. QED
      BY <1>m, <1>p, <1>t, <3>1
  <2>2. /\ << <<"up", linkNow>> >> \in Seq(Settings) /\ Len(<< <<"up", linkNow>> >>) = 1
    BY DEF Settings, DataTypes
  <2>3. /\ todo' \in [Setters -> Seq(Settings)]
        /\ \A t \in Setters : Len(todo'[t]) <= 2 /\ (pc'[t] = "store" => todo'[t] # <<>>)
    <3>1. todo' = [todo EXCEPT !["default"] = << <<"up", linkNow>> >>]
      BY <1>6 DEF Changed
    <3>2. todo' \in [Setters -> Seq(Settings)] /\ Len(todo'["default"]) <= 2
      BY <1>t, <2>2, <3>1 DEF DataTypes
    <3>3. \A t \in Setters : t # "default" => todo'[t] = todo[t]
      BY <3>1 DEF DataTypes
    <3>4. ASSUME NEW t \in Setters
          PROVE  Len(todo'[t]) <= 2 /\ (pc'[t] = "store" => todo'[t] # <<>>)
      <4>1. CASE t = "default"
        <5>1. Len(todo'[t]) <= 2
          BY <3>2, <4>1
        <5>2. pc'[t] # "store"
          BY <2>1, <4>1
        <5>3. QED
          BY <5>1, <5>2
      <4>2. CASE t # "default"
        BY <2>1, <3>3, <4>2 DEF DataTypes, PcTypes
      <4>3. QED
        BY <4>1, <4>2
    <3>5. QED
      BY <3>2, <3>4
  <2>4. /\ UNCHANGED <<logVars, stages, phy, thread, linkNow, last, flags, copy, excused>>
        /\ led' \in BOOLEAN
    BY <1>6 DEF Changed, DataTypes
  <2>5. QED
    BY <1>l, <2>1, <2>3, <2>4 DEF stages, thread, DataTypes, PcTypes
<1>7. CASE ReadPhy \/ LinkSame
  <2>1. PcTypes
    <3>1. Move("link", "test") \/ Move("link", "delay")
      BY <1>7 DEF ReadPhy, LinkSame, Goto, Move
    <3>2. QED
      BY <1>m, <1>p, <1>t, <3>1
  <2>2. /\ UNCHANGED <<logVars, stages, phy, speed, mac, poll, setting, excused>>
        /\ seen' \in PhyStates
    BY <1>7 DEF ReadPhy, LinkSame, thread, DataTypes
  <2>3. QED
    BY <1>k, <1>l, <2>1, <2>2 DEF stages, poll, DataTypes
<1>8. CASE LinkDown \/ LinkUp
  <2>1. PcTypes /\ pc'["link"] = "flags"
    <3>1. Move("link", "flags")
      BY <1>8 DEF LinkDown, LinkUp, Goto, Move
    <3>2. QED
      BY <1>m, <1>p, <1>t, <3>1
  <2>2. ASSUME NEW v \in BOOLEAN
        PROVE  /\ << <<"up", v>>, <<"link", v>> >> \in Seq(Settings)
               /\ Len(<< <<"up", v>>, <<"link", v>> >>) = 2
    BY DEF Settings
  <2>3. /\ todo' \in [Setters -> Seq(Settings)]
        /\ \A t \in Setters : Len(todo'[t]) <= 2 /\ (pc'[t] = "store" => todo'[t] # <<>>)
    <3>1. PICK v \in BOOLEAN :
             todo' = [todo EXCEPT !["link"] = << <<"up", v>>, <<"link", v>> >>]
      BY <1>8 DEF LinkDown, LinkUp
    <3>2. todo' \in [Setters -> Seq(Settings)] /\ Len(todo'["link"]) <= 2
      BY <1>t, <2>2, <3>1 DEF DataTypes
    <3>3. \A t \in Setters : t # "link" => todo'[t] = todo[t]
      BY <3>1 DEF DataTypes
    <3>4. ASSUME NEW t \in Setters
          PROVE  Len(todo'[t]) <= 2 /\ (pc'[t] = "store" => todo'[t] # <<>>)
      <4>1. CASE t = "link"
        <5>1. Len(todo'[t]) <= 2
          BY <3>2, <4>1
        <5>2. pc'[t] # "store"
          BY <2>1, <4>1
        <5>3. QED
          BY <5>1, <5>2
      <4>2. CASE t # "link"
        BY <2>1, <3>3, <4>2 DEF DataTypes, PcTypes
      <4>3. QED
        BY <4>1, <4>2
    <3>5. QED
      BY <3>2, <3>4
  <2>4. /\ UNCHANGED <<logVars, stages, phy, seen, poll, flags, copy>>
        /\ speed' \in Speeds \cup {NONE} /\ mac' \in Speeds \cup {"stopped"}
        /\ excused' \in BOOLEAN
    BY <1>8 DEF LinkDown, LinkUp, DataTypes, PhyStates
  <2>5. QED
    BY <1>l, <2>1, <2>3, <2>4 DEF stages, poll, DataTypes, PcTypes
<1>9. CASE TcpIpQueue \/ DispatcherReceive \/ Dispatch \/ Work
           \/ \E t \in Loggers : LogFailure(t)
  <2>1. PcTypes
    <3>1. \/ UNCHANGED pc
          \/ \E t \in Loggers, p \in {"receive", "full", "dispatch"} : Move(t, p)
      BY <1>t, <1>9 DEF TcpIpQueue, DispatcherReceive, Dispatch, Work, LogFailure, Goto, Move
    <3>2. QED
      BY <1>m, <1>p, <1>t, <1>u, <3>1
  <2>2. commands' \in 0 .. QueueLength /\ running' \in Nat /\ idled' = idled
    BY <1>9, Constants DEF TcpIpQueue, DispatcherReceive, Dispatch, Work, LogFailure, stages,
       DataTypes
  <2>3. LogTypeOK'
    <3>1. CASE UNCHANGED logVars
      BY <1>l, <3>1
    <3>2. CASE \E t \in Loggers : Log(t)
      BY <3>2, LogTypes DEF DataTypes
    <3>3. QED
      BY <1>t, <1>9, <3>1, <3>2 DEF TcpIpQueue, DispatcherReceive, Dispatch, Work, LogFailure
  <2>4. UNCHANGED network
    BY <1>9 DEF TcpIpQueue, DispatcherReceive, Dispatch, Work, LogFailure
  <2>5. QED
    BY <1>k, <2>1, <2>2, <2>3, <2>4 DEF network, thread, poll, DataTypes
<1>10. QED
  BY <1>1, <1>2, <1>3, <1>4, <1>5, <1>6, <1>7, <1>8, <1>9, SettingTypes, StepCases
-----------------------------------------------------------------------------
(* The scheduler *)

\* What a step of Logging does to the places of the tasks.
LEMMA LogMoves ==
    ASSUME DataTypes, NEW t \in Loggers, LogStep(t)
    PROVE  /\ at[t] # "out" /\ \A u \in Loggers \ {t} : at'[u] = at[u]
  BY DEF LogStep, Create, Take, Lock, Test, Send, Give, Transmitted, To, DataTypes, LogTypeOK

LEMMA LogBegins ==
    ASSUME DataTypes, NEW t \in Loggers, Log(t)
    PROVE  /\ at'[t] = (IF mutex = NONE THEN "create" ELSE "take")
           /\ \A u \in Loggers \ {t} : at'[u] = at[u]
           /\ UNCHANGED <<raw, mutex, held, wants, uart, refused, stuck>>
  BY DEF Log, To, DataTypes, LogTypeOK

LEMMA WantsStep == DataTypes /\ WantsInv /\ Next => WantsInv'
<1> SUFFICES ASSUME DataTypes, WantsInv, Next PROVE WantsInv'
  OBVIOUS
<1>0. NONE \notin Loggers /\ "default" \in Loggers
  BY DEF NONE, Loggers
<1>1. CASE UNCHANGED logVars
  BY <1>1 DEF logVars, WantsInv
<1>2. ASSUME NEW t \in Loggers, Log(t) PROVE WantsInv'
  BY <1>2, LogBegins DEF WantsInv
<1>3. CASE Write("default")
  BY <1>0, <1>3 DEF Write, To, WantsInv, DataTypes, LogTypeOK
<1>4. ASSUME NEW t \in Loggers, LogStep(t) PROVE WantsInv'
  <2>1. CASE Create(t)
    BY <1>0, <2>1 DEF Create, To, WantsInv, DataTypes, LogTypeOK
  <2>2. CASE Take(t)
    <3>1. /\ at[t] = "take" /\ at'[t] = "lock" /\ wants'[t] = mutex /\ mutex' = mutex
          /\ \A u \in Loggers \ {t} : at'[u] = at[u] /\ wants'[u] = wants[u]
      BY <2>2 DEF Take, To, DataTypes, LogTypeOK
    <3>2. mutex \in Loggers
      <4>1. mutex # NONE
        BY <3>1 DEF WantsInv
      <4>2. mutex \in Loggers \cup {NONE}
        BY DEF DataTypes, LogTypeOK
      <4>3. QED
        BY <4>1, <4>2
    <3>3. QED
      BY <3>1, <3>2 DEF WantsInv
  <2>3. CASE Lock(t)
    BY <1>0, <2>3 DEF Lock, To, WantsInv, DataTypes, LogTypeOK
  <2>4. CASE Test(t) \/ Send(t) \/ Give(t)
    BY <1>0, <2>4 DEF Test, Send, Give, Transmitted, To, WantsInv, DataTypes, LogTypeOK
  <2>5. QED
    BY <1>4, <2>1, <2>2, <2>3, <2>4 DEF LogStep
<1>5. UNCHANGED logVars \/ Write("default") \/ \E t \in Loggers : Log(t) \/ LogStep(t)
  <2>1. {"default", "dispatcher", "worker"} \subseteq Loggers
    BY DEF Loggers
  <2>2. QED
    BY <2>1, StepCases DEF PacketArrives, QueueTimesOut, ReceivesTimeOut, PhyChanges, DelayEnds,
       NetInit, BootPrint, Poll, Changed, Blink, ReadPhy, LinkSame, LinkDown, LinkUp, FlagLoad,
       FlagStore, FlagsSet, TcpIpQueue, DispatcherReceive, Dispatch, Work, LogFailure
<1>6. QED
  BY <1>1, <1>2, <1>3, <1>4, <1>5

\* The link thread never inherits a priority.
LEMMA LinkNotUrgent == DataTypes /\ WantsInv => ~Urgent("link")
<1> SUFFICES ASSUME DataTypes, WantsInv, Inherited("link") PROVE FALSE
  BY DEF Urgent, Priority
<1>1. PICK u \in Loggers : Blocked(u) /\ held[wants[u]] = "link"
  BY DEF Inherited
<1>2. wants[u] \in Loggers
  BY <1>1 DEF Blocked, WantsInv
<1>3. held[wants[u]] \in Loggers \cup {NONE}
  BY <1>2 DEF DataTypes, LogTypeOK
<1>4. QED
  BY <1>1, <1>3 DEF Loggers, NONE

\* The default task is not interrupted by others than the TCP/IP thread.
LEMMA DefaultReady ==
    ASSUME pc["default"] # "delay" \/ at["default"] # "out", ~Blocked("default")
    PROVE  /\ Ready("default") /\ Urgent("default")
           /\ \A u \in Tasks : Scheduled(u) => Urgent(u)
<1>1. ~Waits("default")
  BY DEF Waits, Out, Loggers
<1>2. Ready("default") /\ Urgent("default") /\ "default" \in Tasks
  BY <1>1 DEF Ready, Urgent, Priority, Tasks, Loggers
<1>3. QED
  BY <1>2 DEF Scheduled
-----------------------------------------------------------------------------
(* The flags of the interface *)

LEMMA FlagsStart == Init => WantsInv /\ DefaultInv /\ LinkInv
<1> SUFFICES ASSUME Init PROVE WantsInv /\ DefaultInv /\ LinkInv
  OBVIOUS
<1>1. pc["default"] = "init" /\ pc["link"] = "read"
  BY DEF Init, Tasks, Loggers
<1>2. mac = "stopped" => phy = "down"
  BY Constants, LinkAssumption DEF Init
<1>3. flags["link"] = (phy # "down")
  BY DEF Init
<1>4. WantsInv
  BY DEF Init, LogInit, WantsInv
<1>5. QED
  BY <1>1, <1>2, <1>3, <1>4 DEF DefaultInv, LinkInv

\* A step of the default task between reading and storing the flags, or none.
LEMMA DefaultStep ==
    DataTypes /\ WantsInv /\ DefaultInv /\ Next => DefaultInv'
<1> SUFFICES ASSUME DataTypes, WantsInv, DefaultInv, Next PROVE DefaultInv'
  OBVIOUS
<1>0. /\ "default" \in Tasks /\ "default" \in Loggers /\ Loggers \subseteq Tasks
      /\ "link" \in Tasks /\ "default" \in Setters /\ "link" \in Setters
  BY DEF Tasks, Loggers, Setters
\* The default task stays where it is, and so do the flags when it stores them.
<1>k. ASSUME pc'["default"] = pc["default"], todo'["default"] = todo["default"],
             copy'["default"] = copy["default"],
             pc["default"] \in {"flags", "store"} => at'["default"] = at["default"],
             pc["default"] = "store" => flags'["link"] = flags["link"]
      PROVE  DefaultInv'
  BY <1>k DEF DefaultInv
<1>g. ASSUME pc'["default"] \notin {"flags", "store"} PROVE DefaultInv'
  BY <1>g DEF DefaultInv
<1>s. ASSUME pc["default"] = "store" PROVE ~Scheduled("link")
  <2>1. at["default"] = "out"
    BY <1>s DEF DefaultInv
  <2>2. QED
    BY <1>0, <1>s, <2>1, DefaultReady, LinkNotUrgent DEF Blocked
<1>1. CASE PacketArrives \/ QueueTimesOut \/ ReceivesTimeOut \/ PhyChanges
  <2>1. pc'["default"] = pc["default"]
    BY <1>0, <1>1 DEF PacketArrives, QueueTimesOut, ReceivesTimeOut, PhyChanges, Goto, DataTypes
  <2>2. UNCHANGED <<at, todo, copy, flags>>
    BY <1>1 DEF PacketArrives, QueueTimesOut, ReceivesTimeOut, PhyChanges, network, setting,
       logVars, stages
  <2>3. QED
    BY <1>k, <2>1, <2>2
<1>2. ASSUME NEW t \in Setters, DelayEnds(t) PROVE DefaultInv'
  <2>1. CASE t = "default"
    <3>1. pc'["default"] = "poll"
      BY <1>0, <1>2, <2>1 DEF DelayEnds, Goto, DataTypes
    <3>2. QED
      BY <1>g, <3>1
  <2>2. CASE t # "default"
    <3>1. pc'["default"] = pc["default"] /\ UNCHANGED <<at, todo, copy, flags>>
      BY <1>0, <1>2, <2>2 DEF DelayEnds, Goto, DataTypes, network, setting, logVars
    <3>2. QED
      BY <1>k, <3>1
  <2>3. QED
    BY <2>1, <2>2
<1>3. ASSUME NEW t \in Loggers, LogStep(t), UNCHANGED linkVars PROVE DefaultInv'
  <2>1. UNCHANGED <<pc, todo, copy, flags>>
    BY <1>3 DEF linkVars, network, setting
  <2>2. pc["default"] \in {"flags", "store"} => at'["default"] = at["default"]
    BY <1>0, <1>3, LogMoves DEF DefaultInv
  <2>3. QED
    BY <1>k, <2>1, <2>2
<1>4. CASE NetInit \/ BootPrint \/ Poll \/ Blink
  <2>1. pc'["default"] \in {"print", "print again", "poll", "changed", "blink", "delay"}
    BY <1>0, <1>4 DEF NetInit, BootPrint, Poll, Blink, Goto, DataTypes
  <2>2. QED
    BY <1>g, <2>1
<1>5. CASE Changed /\ Out("default")
  <2>1. /\ pc'["default"] = "flags" /\ todo'["default"] = << <<"up", linkNow>> >>
        /\ at' = at /\ linkNow \in BOOLEAN
    BY <1>0, <1>5 DEF Changed, Goto, DataTypes, logVars
  <2>2. at["default"] = "out"
    BY <1>0, <1>5 DEF Out
  <2>3. QED
    BY <2>1, <2>2 DEF DefaultInv
<1>6. CASE Scheduled("link") /\ (ReadPhy \/ LinkSame \/ LinkDown \/ LinkUp)
  <2>1. /\ pc'["default"] = pc["default"] /\ todo'["default"] = todo["default"]
        /\ UNCHANGED <<at, copy, flags>>
    BY <1>0, <1>6 DEF ReadPhy, LinkSame, LinkDown, LinkUp, Goto, DataTypes, setting, logVars
  <2>2. QED
    BY <1>k, <2>1
<1>7. ASSUME NEW t \in Setters, Scheduled(t), Out(t),
             FlagLoad(t) \/ FlagStore(t) \/ FlagsSet(t)
      PROVE  DefaultInv'
  <2>0. UNCHANGED at
    BY <1>7 DEF FlagLoad, FlagStore, FlagsSet, logVars
  <2>1. CASE t = "link"
    <3>1. pc["default"] # "store"
      BY <1>7, <1>s, <2>1
    <3>2. /\ pc'["default"] = pc["default"] /\ todo'["default"] = todo["default"]
          /\ copy'["default"] = copy["default"]
      BY <1>0, <1>7, <2>1 DEF FlagLoad, FlagStore, FlagsSet, Goto, DataTypes, setting
    <3>3. QED
      BY <1>k, <2>0, <3>1, <3>2
  <2>2. CASE t = "default" /\ FlagLoad(t)
    <3>1. PICK v \in BOOLEAN : todo["default"] = << <<"up", v>> >>
      BY <2>2 DEF FlagLoad, DefaultInv
    <3>2. Head(todo["default"])[1] = "up" /\ Tail(todo["default"]) = <<>>
      BY <3>1
    <3>3. CASE todo' = [todo EXCEPT !["default"] = Tail(@)] /\ UNCHANGED <<copy, pc>>
      BY <1>0, <2>0, <2>2, <3>2, <3>3 DEF FlagLoad, DefaultInv, DataTypes
    <3>4. CASE \E x \in BOOLEAN : /\ copy' = [copy EXCEPT !["default"] = [flags EXCEPT !["up"] = x]]
                                  /\ Goto("default", "store") /\ UNCHANGED todo
      <4>1. copy'["default"]["link"] = flags["link"] /\ flags' = flags
        BY <1>0, <2>2, <3>4 DEF FlagLoad, DataTypes, Flags
      <4>2. at["default"] = "out"
        BY <2>2 DEF FlagLoad, DefaultInv
      <4>3. QED
        BY <2>0, <3>1, <3>4, <4>1, <4>2 DEF DefaultInv
    <3>5. Head(todo["default"])[2] \in BOOLEAN
      BY <3>1
    <3>6. QED
      BY <2>2, <3>2, <3>3, <3>4, <3>5 DEF FlagLoad
  <2>3. CASE t = "default" /\ FlagStore(t)
    <3>1. PICK v \in BOOLEAN : todo["default"] = << <<"up", v>> >>
      BY <1>0, <2>3 DEF FlagStore, DefaultInv, DataTypes
    <3>2. Tail(todo["default"]) = <<>>
      BY <3>1
    <3>3. pc'["default"] = "flags" /\ todo'["default"] = <<>>
      BY <1>0, <2>3, <3>2 DEF FlagStore, Goto, DataTypes
    <3>4. QED
      BY <2>0, <2>3, <3>3 DEF DefaultInv, FlagStore
  <2>4. CASE t = "default" /\ FlagsSet(t)
    <3>1. pc'["default"] = "blink"
      BY <1>0, <2>4 DEF FlagsSet, Goto, DataTypes
    <3>2. QED
      BY <1>g, <3>1
  <2>5. QED
    BY <1>7, <2>1, <2>2, <2>3, <2>4 DEF Setters
<1>8. CASE TcpIpQueue \/ DispatcherReceive \/ Dispatch \/ Work
  <2>1. pc'["default"] = pc["default"]
    BY <1>0, <1>8 DEF TcpIpQueue, DispatcherReceive, Dispatch, Work, Goto, DataTypes
  <2>2. at'["default"] = at["default"] /\ UNCHANGED <<todo, copy, flags>>
    BY <1>0, <1>8 DEF TcpIpQueue, DispatcherReceive, Dispatch, Work, Log, To, DataTypes,
       LogTypeOK, network, setting, logVars
  <2>3. QED
    BY <1>k, <2>1, <2>2
<1>9. ASSUME NEW t \in Loggers, LogFailure(t) PROVE DefaultInv'
  <2>1. CASE t = "default"
    <3>1. pc'["default"] = "receive"
      BY <1>0, <1>9, <2>1 DEF LogFailure, Goto, DataTypes
    <3>2. QED
      BY <1>g, <3>1
  <2>2. CASE t # "default"
    <3>1. pc'["default"] = pc["default"]
      BY <1>0, <1>9, <2>2 DEF LogFailure, Goto, DataTypes
    <3>2. at'["default"] = at["default"] /\ UNCHANGED <<todo, copy, flags>>
      BY <1>0, <1>9, <2>2, LogBegins DEF LogFailure, network, setting
    <3>3. QED
      BY <1>k, <3>1, <3>2
  <2>3. QED
    BY <2>1, <2>2
<1>10. QED
  BY <1>1, <1>2, <1>3, <1>4, <1>5, <1>6, <1>7, <1>8, <1>9, StepCases

\* A step of the link thread, or one that leaves the link as it is.
LEMMA LinkStep ==
    DataTypes /\ WantsInv /\ DefaultInv /\ LinkInv /\ Next => LinkInv'
<1> SUFFICES ASSUME DataTypes, WantsInv, DefaultInv, LinkInv, Next PROVE LinkInv'
  OBVIOUS
<1>0. /\ "link" \in Tasks /\ "link" \in Setters /\ "default" \in Tasks /\ "default" \in Setters
      /\ Loggers \subseteq Tasks /\ "link" \notin Loggers /\ "stopped" \notin Speeds
  BY Constants
\* The link thread and the link stay as they are.
<1>k. ASSUME pc'["link"] = pc["link"], todo'["link"] = todo["link"],
             copy'["link"] = copy["link"], mac' = mac, flags'["link"] = flags["link"]
      PROVE  LinkInv'
  BY <1>k DEF LinkInv
<1>1. CASE PacketArrives \/ QueueTimesOut \/ ReceivesTimeOut \/ PhyChanges
  <2>1. pc'["link"] = pc["link"]
    BY <1>0, <1>1 DEF PacketArrives, QueueTimesOut, ReceivesTimeOut, PhyChanges, Goto, DataTypes
  <2>2. UNCHANGED <<todo, copy, flags, mac>>
    BY <1>1 DEF PacketArrives, QueueTimesOut, ReceivesTimeOut, PhyChanges, network, setting,
       thread, stages
  <2>3. QED
    BY <1>k, <2>1, <2>2
<1>2. ASSUME NEW t \in Setters, DelayEnds(t) PROVE LinkInv'
  <2>0. UNCHANGED <<todo, copy, flags, mac>>
    BY <1>2 DEF DelayEnds, network, setting, thread
  <2>1. CASE t = "link"
    <3>1. pc["link"] = "delay" /\ pc'["link"] = "read"
      BY <1>0, <1>2, <2>1 DEF DelayEnds, Goto, DataTypes
    <3>2. QED
      BY <2>0, <3>1 DEF LinkInv
  <2>2. CASE t # "link"
    <3>1. pc'["link"] = pc["link"]
      BY <1>0, <1>2, <2>2 DEF DelayEnds, Goto, DataTypes
    <3>2. QED
      BY <1>k, <2>0, <3>1
  <2>3. QED
    BY <2>1, <2>2
<1>3. CASE UNCHANGED linkVars
  BY <1>k, <1>3 DEF linkVars, network, setting, thread
<1>4. CASE NetInit \/ BootPrint \/ Poll \/ Changed \/ Blink
  <2>1. /\ pc'["link"] = pc["link"] /\ todo'["link"] = todo["link"]
        /\ UNCHANGED <<copy, flags, mac>>
    BY <1>0, <1>4 DEF NetInit, BootPrint, Poll, Changed, Blink, Goto, DataTypes, setting, thread
  <2>2. QED
    BY <1>k, <2>1
<1>5. CASE ReadPhy \/ LinkSame
  <2>1. /\ pc["link"] \notin {"flags", "store"} /\ pc'["link"] \in {"test", "delay"}
        /\ UNCHANGED <<flags, mac>>
    BY <1>0, <1>5 DEF ReadPhy, LinkSame, Goto, DataTypes, setting, thread
  <2>2. QED
    BY <2>1 DEF LinkInv
<1>6. CASE LinkDown
  <2>1. /\ pc'["link"] = "flags" /\ mac' = "stopped"
        /\ todo'["link"] = << <<"up", FALSE>>, <<"link", FALSE>> >>
    BY <1>0, <1>6 DEF LinkDown, Goto, DataTypes
  <2>2. QED
    BY <2>1 DEF LinkInv, Going
<1>7. CASE LinkUp
  <2>1. /\ pc'["link"] = "flags" /\ mac' = speed'
        /\ todo'["link"] = << <<"up", TRUE>>, <<"link", TRUE>> >>
    BY <1>0, <1>7 DEF LinkUp, Goto, DataTypes
  <2>2. speed' \in Speeds
    BY <1>7 DEF LinkUp, DataTypes, PhyStates
  <2>3. QED
    BY <2>1, <2>2 DEF LinkInv, Coming
<1>8. ASSUME NEW t \in Setters, Out(t), FlagLoad(t) \/ FlagStore(t) \/ FlagsSet(t)
      PROVE  LinkInv'
  <2>0. UNCHANGED mac
    BY <1>8 DEF FlagLoad, FlagStore, FlagsSet, thread
  <2>1. CASE t = "default"
    <3>1. /\ pc'["link"] = pc["link"] /\ todo'["link"] = todo["link"]
          /\ copy'["link"] = copy["link"]
      BY <1>0, <1>8, <2>1 DEF FlagLoad, FlagStore, FlagsSet, Goto, DataTypes, setting
    <3>2. flags'["link"] = flags["link"]
      BY <1>8, <2>1 DEF FlagLoad, FlagStore, FlagsSet, DefaultInv, setting
    <3>3. QED
      BY <1>k, <2>0, <3>1, <3>2
  \* The first setting of the link thread, and what is left after it.
  <2> DEFINE flag  == Head(todo["link"])[1]
             value == Head(todo["link"])[2]
             rest  == Tail(todo["link"])
  <2>a. /\ todo["link"] \in Going =>
             /\ flag = todo["link"][1][1] /\ value = todo["link"][1][2]
             /\ \/ flag = "up" /\ rest \in Going
                \/ flag = "link" /\ rest = <<>> /\ value = FALSE
        /\ todo["link"] \in Coming =>
             /\ flag = todo["link"][1][1] /\ value = todo["link"][1][2]
             /\ \/ flag = "up" /\ rest \in Coming
                \/ flag = "link" /\ rest = <<>>
    <3>1. ASSUME NEW v \in BOOLEAN, todo["link"] = << <<"up", v>>, <<"link", v>> >>
          PROVE  flag = "up" /\ value = v /\ todo["link"][1] = <<"up", v>> /\ rest = << <<"link", v>> >>
      BY <3>1
    <3>2. ASSUME NEW v \in BOOLEAN, todo["link"] = << <<"link", v>> >>
          PROVE  flag = "link" /\ value = v /\ todo["link"][1] = <<"link", v>> /\ rest = <<>>
      BY <3>2
    <3>3. todo["link"] \in Going =>
             \E v \in {FALSE} : \/ todo["link"] = << <<"up", v>>, <<"link", v>> >>
                                \/ todo["link"] = << <<"link", v>> >>
      BY DEF Going
    <3>4. todo["link"] \in Coming =>
             \E v \in {TRUE} : \/ todo["link"] = << <<"up", v>>, <<"link", v>> >>
                               \/ todo["link"] = << <<"link", v>> >>
      BY DEF Coming
    <3>5. /\ << <<"link", FALSE>> >> \in Going /\ << <<"link", TRUE>> >> \in Coming
      BY DEF Going, Coming
    <3>6. <<"up", TRUE>>[1] = "up" /\ <<"up", TRUE>>[2] = TRUE
          /\ <<"up", FALSE>>[1] = "up" /\ <<"up", FALSE>>[2] = FALSE
          /\ <<"link", TRUE>>[1] = "link" /\ <<"link", TRUE>>[2] = TRUE
          /\ <<"link", FALSE>>[1] = "link" /\ <<"link", FALSE>>[2] = FALSE
      OBVIOUS
    <3> HIDE DEF flag, value, rest
    <3>7. QED
      BY <3>1, <3>2, <3>3, <3>4, <3>5, <3>6
  <2>b. <<>> \notin Going /\ <<>> \notin Coming
    <3>1. \A x, y : Len(<<x>>) # Len(<<>>) /\ Len(<<x, y>>) # Len(<<>>)
      OBVIOUS
    <3>2. QED
      BY <3>1 DEF Going, Coming
  <2> HIDE DEF flag, value, rest
  <2>2. CASE t = "link" /\ FlagLoad(t)
    <3>0. /\ pc["link"] = "flags" /\ todo["link"] # <<>> /\ flags' = flags
          /\ \/ todo["link"] \in Going /\ mac = "stopped"
             \/ todo["link"] \in Coming /\ mac \in Speeds
      BY <2>2 DEF FlagLoad, LinkInv
    <3>1. CASE flags[flag] = value /\ todo' = [todo EXCEPT !["link"] = Tail(@)]
               /\ UNCHANGED <<copy, pc>>
      <4>1. todo'["link"] = rest /\ pc'["link"] = "flags"
        BY <1>0, <3>0, <3>1 DEF DataTypes, rest
      <4>2. CASE flag = "up"
        BY <1>0, <2>0, <2>a, <3>0, <4>1, <4>2 DEF LinkInv
      <4>3. CASE flag = "link"
        BY <1>0, <2>0, <2>a, <3>0, <3>1, <4>1, <4>3 DEF LinkInv
      <4>4. QED
        BY <2>a, <3>0, <4>2, <4>3
    <3>2. CASE /\ copy' = [copy EXCEPT !["link"] = [flags EXCEPT ![flag] = value]]
               /\ Goto("link", "store") /\ UNCHANGED todo
      <4>1. todo'["link"] = todo["link"] /\ pc'["link"] = "store"
        BY <1>0, <3>2 DEF DataTypes, Goto
      <4>2. copy'["link"] = [flags EXCEPT ![flag] = value] /\ DOMAIN flags = {"up", "link"}
        BY <1>0, <3>2 DEF DataTypes, Flags
      <4>3. flag \in {"up", "link"} /\ flag = todo["link"][1][1] /\ value = todo["link"][1][2]
        BY <2>a, <3>0
      <4>4. \/ flag = "link" /\ copy'["link"]["link"] = todo'["link"][1][2]
            \/ flag = "up" /\ copy'["link"]["link"] = flags'["link"]
        BY <3>0, <4>1, <4>2, <4>3
      <4>5. QED
        BY <2>0, <3>0, <4>1, <4>3, <4>4 DEF LinkInv
    <3>3. QED
      BY <2>2, <3>1, <3>2 DEF FlagLoad, flag, value
  <2>3. CASE t = "link" /\ FlagStore(t)
    <3>0. /\ pc["link"] = "store" /\ todo["link"] # <<>>
          /\ \/ todo["link"] \in Going /\ mac = "stopped"
             \/ todo["link"] \in Coming /\ mac \in Speeds
      BY <1>0, <2>3 DEF FlagStore, LinkInv, DataTypes
    <3>1. /\ todo'["link"] = rest /\ pc'["link"] = "flags"
          /\ flags' = copy["link"]
      BY <1>0, <2>3 DEF FlagStore, Goto, DataTypes, rest
    <3>2. CASE flag = "up"
      BY <1>0, <2>0, <2>a, <3>0, <3>1, <3>2 DEF LinkInv
    <3>3. CASE flag = "link"
      <4>1. todo'["link"] = <<>> /\ flags'["link"] = todo["link"][1][2]
        BY <2>a, <3>0, <3>1, <3>3 DEF LinkInv
      <4>2. mac = "stopped" => ~flags'["link"]
        BY <1>0, <2>a, <3>0, <3>3, <4>1
      <4>3. QED
        BY <2>0, <3>1, <4>1, <4>2 DEF LinkInv
    <3>4. QED
      BY <2>a, <3>0, <3>2, <3>3
  <2>4. CASE t = "link" /\ FlagsSet(t)
    <3>1. /\ pc["link"] = "flags" /\ todo["link"] = <<>> /\ pc'["link"] = "delay"
          /\ flags' = flags
      BY <1>0, <2>4 DEF FlagsSet, Goto, DataTypes, setting
    <3>2. QED
      BY <2>0, <2>b, <3>1 DEF LinkInv
  <2>5. QED
    BY <1>8, <2>1, <2>2, <2>3, <2>4 DEF Setters
<1>9. CASE TcpIpQueue \/ DispatcherReceive \/ Dispatch \/ Work
           \/ \E t \in Loggers : LogFailure(t)
  <2>1. pc'["link"] = pc["link"]
    BY <1>0, <1>9 DEF TcpIpQueue, DispatcherReceive, Dispatch, Work, LogFailure, Goto, DataTypes
  <2>2. UNCHANGED <<todo, copy, flags, mac>>
    BY <1>9 DEF TcpIpQueue, DispatcherReceive, Dispatch, Work, LogFailure, network, setting,
       thread
  <2>3. QED
    BY <1>k, <2>1, <2>2
<1>10. QED
  BY <1>1, <1>2, <1>3, <1>4, <1>5, <1>6, <1>7, <1>8, <1>9, StepCases
-----------------------------------------------------------------------------
LEMMA Stuttering == FlagsInv /\ UNCHANGED vars => FlagsInv'
<1> SUFFICES ASSUME FlagsInv, UNCHANGED vars PROVE FlagsInv'
  OBVIOUS
<1>1. UNCHANGED <<logVars, linkVars, stages, network, thread, poll, setting>>
  BY DEF vars, linkVars, network
<1>2. DataTypes' /\ WantsInv'
  BY <1>1 DEF FlagsInv, DataTypes, WantsInv, LogTypeOK, logVars, linkVars, stages, network, thread,
     poll, setting
<1>3. DefaultInv' /\ LinkInv'
  BY <1>1 DEF FlagsInv, DefaultInv, LinkInv, logVars, linkVars, network, thread, setting
<1>4. QED
  BY <1>2, <1>3 DEF FlagsInv

LEMMA FlagsInvariant == Spec => []FlagsInv
<1>1. Init => FlagsInv
  BY TypeStart, FlagsStart DEF FlagsInv
<1>2. FlagsInv /\ [Next]_vars => FlagsInv'
  BY Stuttering, TypeStep, WantsStep, DefaultStep, LinkStep DEF FlagsInv
<1>3. QED
  BY <1>1, <1>2, PTL DEF Spec

\* Type correctness: the flags, what the tasks have to set, the speeds and the
\* places of the tasks are always those of the code.
THEOREM TypeCorrect == Spec => []TypeOK
<1>1. FlagsInv => TypeOK
  BY TypesSuffice DEF FlagsInv
<1>2. QED
  BY <1>1, FlagsInvariant, PTL

\* The link flag of the interface is up only while the MAC runs, except while the
\* link thread is setting it, whatever app_net_poll stores of the flags meanwhile.
THEOREM LinkRuns == Spec => []LinkUpRuns
<1>1. FlagsInv => LinkUpRuns
  BY Constants DEF FlagsInv, LinkInv, LinkUpRuns
<1>2. QED
  BY <1>1, FlagsInvariant, PTL
-----------------------------------------------------------------------------
(* Messages are whole *)

\* The default task keeps the dispatcher from running until it has logged what it
\* prints at the start, and while the dispatcher is about to create the mutex.
LEMMA DispatcherWaits ==
    ASSUME DataTypes, WantsInv, PhaseInv, OwnerInv,
           Booting \/ (at["dispatcher"] = "create" /\ at["default"] # "out")
    PROVE  ~Scheduled("dispatcher")
<1>0. /\ {"default", "tcpip", "dispatcher", "worker"} = Loggers /\ NONE \notin Loggers
      /\ "dispatcher" \in Tasks
  BY DEF Loggers, NONE, Tasks
<1>1. pc["default"] # "delay" \/ at["default"] # "out"
  BY DEF Booting, OwnerInv
\* Nobody waits for a mutex that the default task or the dispatcher would hold.
<1>2. ASSUME NEW u \in Loggers, Blocked(u)
      PROVE  /\ mutex # NONE /\ wants[u] = mutex /\ held[mutex] \in Loggers
             /\ at[held[mutex]] \in Busy
  <2>1. at[u] = "lock" /\ u \notin raw
    BY <1>2 DEF Blocked, OwnerInv
  <2>2. mutex # NONE
    BY <2>1 DEF OwnerInv
  <2>3. wants[u] = mutex
    BY <2>1, <2>2 DEF OwnerInv
  <2>4. held[mutex] \in Loggers
    BY <1>2, <2>2, <2>3 DEF Blocked, DataTypes, LogTypeOK
  <2>5. QED
    BY <2>2, <2>3, <2>4 DEF OwnerInv
<1>3. CASE Booting
  <2>1. \A u \in Loggers : ~Blocked(u)
    BY <1>2, <1>3 DEF PhaseInv
  <2>2. ~Urgent("dispatcher")
    BY <1>0, <2>1 DEF Urgent, Priority, Inherited
  <2>3. QED
    BY <1>0, <1>1, <2>1, <2>2, DefaultReady
<1>4. CASE at["dispatcher"] = "create" /\ at["default"] # "out"
  <2>1. at["tcpip"] = "out" /\ at["worker"] = "out"
    BY <1>4 DEF PhaseInv, Late
  <2>2. ~Blocked("default")
    <3> SUFFICES ASSUME Blocked("default") PROVE FALSE
      OBVIOUS
    <3>1. at[held[mutex]] \in Busy /\ held[mutex] \in Loggers
      BY <1>0, <1>2
    <3>2. at["default"] = "lock"
      BY DEF Blocked
    <3>3. QED
      BY <1>0, <1>4, <2>1, <3>1, <3>2 DEF Busy
  <2>3. ~Urgent("dispatcher")
    <3>1. ASSUME NEW u \in Loggers, Blocked(u), held[wants[u]] = "dispatcher" PROVE FALSE
      BY <1>2, <1>4, <3>1 DEF Busy
    <3>2. QED
      BY <3>1 DEF Urgent, Priority, Inherited
  <2>4. QED
    BY <1>0, <1>1, <2>2, <2>3, DefaultReady
<1>5. QED
  BY <1>3, <1>4

\* A step inside Logging keeps both invariants.
LEMMA LogStepWhole ==
    ASSUME DataTypes, WantsInv, PhaseInv, OwnerInv,
           NEW t \in Loggers, Scheduled(t), LogStep(t), UNCHANGED linkVars
    PROVE  PhaseInv' /\ OwnerInv'
<1>0. /\ {"default", "tcpip", "dispatcher", "worker"} = Loggers /\ NONE \notin Loggers
  BY DEF Loggers, NONE
<1>p. UNCHANGED <<pc, running>>
  BY DEF linkVars, stages
<1>r. \A u \in Loggers : u \in raw => /\ mutex = NONE /\ u = "default"
                                      /\ at[u] \in {"test", "send"}
  BY DEF OwnerInv
\* Only a task whose place is in Logging, and after the mutex has been made.
<1>o. t \in raw \/ at[t] = "create" \/ mutex # NONE
  <2>1. at[t] # "out"
    BY LogMoves
  <2>2. QED
    BY <2>1 DEF OwnerInv
<1>1. CASE Create(t)
  <2>1. /\ at[t] = "create" /\ at'[t] = "take" /\ mutex' = t
        /\ \A u \in Loggers \ {t} : at'[u] = at[u]
        /\ UNCHANGED <<raw, held, wants, uart, refused, stuck>>
    BY <1>1 DEF Create, To, DataTypes, LogTypeOK
  <2>2. t \in {"default", "dispatcher"} /\ ~Late /\ ~Booting
    BY <1>0, <1>r, <2>1 DEF OwnerInv, PhaseInv, Late
  <2>3. at["tcpip"] = "out" /\ at["worker"] = "out"
    BY <2>2 DEF PhaseInv
  <2>4. t = "dispatcher" => at["default"] = "out"
    BY <2>1, DispatcherWaits
  <2>5. raw = {} /\ \A u \in Loggers : at[u] \in {"out", "create"} /\ held[u] = NONE
    <3>1. CASE t = "default"
      BY <1>0, <1>r, <2>1, <3>1 DEF OwnerInv
    <3>2. CASE t = "dispatcher"
      <4>1. \A u \in Loggers : at[u] \in {"out", "create"}
        BY <1>0, <2>1, <2>3, <2>4, <3>2
      <4>2. raw = {}
        BY <1>r, <4>1 DEF DataTypes, LogTypeOK
      <4>3. CASE mutex = NONE
        BY <4>1, <4>2, <4>3 DEF OwnerInv
      <4>4. CASE mutex # NONE
        <5>1. \A u \in Loggers : held[mutex] # u
          BY <4>1, <4>4 DEF OwnerInv, Busy
        <5>2. mutex \in Loggers /\ held[mutex] \in Loggers \cup {NONE}
          BY <4>4 DEF DataTypes, LogTypeOK
        <5>3. QED
          BY <4>1, <4>2, <4>4, <5>1, <5>2 DEF OwnerInv
      <4>5. QED
        BY <4>3, <4>4
    <3>3. QED
      BY <2>2, <3>1, <3>2
  <2>6. OwnerInv'
    <3>1. \A u \in Loggers : /\ at'[u] \notin Busy /\ held'[u] = NONE /\ at'[u] # "lock"
                             /\ at'[u] = "create" => u \in {"default", "dispatcher"} \ {t}
      BY <2>1, <2>5 DEF OwnerInv, Busy
    <3>2. mutex' # NONE /\ mutex' \in Loggers
      BY <1>0, <2>1
    <3>3. at'["dispatcher"] = "create" => mutex' = "default"
      BY <1>0, <2>1, <2>2, <3>1
    <3>4. at'["default"] # "create"
      BY <1>0, <2>1, <2>2, <2>4, <3>1
    <3>5. uart' # "BUSY"
      BY <2>1, <2>5 DEF OwnerInv
    <3>6. ~refused' /\ ~stuck' /\ raw' = {}
      BY <2>1, <2>5 DEF OwnerInv
    <3>7. \A u \in Loggers : held'[mutex'] # u
      BY <1>0, <3>1, <3>2
    <3>8. QED
      BY <3>1, <3>2, <3>3, <3>4, <3>5, <3>6, <3>7 DEF OwnerInv
  <2>7. PhaseInv'
    <3>1. ~Booting'
      BY <1>p, <2>1, <2>2 DEF Booting
    <3>2. ~Late' => /\ at'["dispatcher"] = "create" /\ t = "default"
      BY <1>0, <2>1, <2>2 DEF Late
    <3>3. QED
      BY <1>0, <1>p, <2>1, <2>2, <3>1, <3>2 DEF PhaseInv
  <2>8. QED
    BY <2>6, <2>7
\* The other steps leave the mutex, so that both phases are as they were.
<1>2. ASSUME at[t] # "create", at'[t] # "create", mutex' = mutex, raw' \subseteq raw,
             \A u \in Loggers \ {t} : at'[u] = at[u],
             at'["default"] = "out" \/ "default" \in raw' \/ "default" \notin raw
      PROVE  PhaseInv'
  <2>1. Late' <=> Late
    BY <1>0, <1>2 DEF Late
  <2>2. ~Late => t = "default"
    <3>1. at[t] # "out"
      BY LogMoves
    <3>2. ~Late => t \notin {"tcpip", "worker"}
      BY <3>1 DEF PhaseInv
    <3>3. ~Late /\ t = "dispatcher" => FALSE
      BY <1>0, <1>2, <1>o, <1>r DEF Late
    <3>4. QED
      BY <1>0, <3>2, <3>3
  <2>3. Booting' => /\ Booting /\ t = "default" /\ "default" \in raw
    <3>1. Booting' => Booting
      BY <1>2, <1>p DEF Booting
    <3>2. Booting => ~Late /\ at["dispatcher"] = "out"
      BY DEF PhaseInv, Late
    <3>3. Booting => t \in raw
      BY <1>2, <1>o DEF PhaseInv
    <3>4. QED
      BY <1>r, <3>1, <3>3
  <2>4. QED
    BY <1>0, <1>2, <1>p, <2>1, <2>2, <2>3 DEF PhaseInv
<1>3. CASE Take(t)
  <2>1. /\ at[t] = "take" /\ at'[t] = "lock" /\ wants'[t] = mutex
        /\ \A u \in Loggers \ {t} : at'[u] = at[u] /\ wants'[u] = wants[u]
        /\ UNCHANGED <<raw, mutex, held, uart, refused, stuck>>
    BY <1>3 DEF Take, To, DataTypes, LogTypeOK
  <2>2. mutex # NONE /\ raw = {}
    BY <1>r, <2>1 DEF WantsInv, DataTypes, LogTypeOK
  <2>3. OwnerInv'
    BY <1>0, <2>1, <2>2 DEF OwnerInv, Busy
  <2>4. PhaseInv'
    BY <1>2, <2>1, <2>2
  <2>5. QED
    BY <2>3, <2>4
<1>4. CASE Lock(t)
  <2>1. /\ at[t] = "lock" /\ at'[t] = "test" /\ held[wants[t]] = NONE
        /\ held' = [held EXCEPT ![wants[t]] = t]
        /\ \A u \in Loggers \ {t} : at'[u] = at[u] /\ wants'[u] = wants[u]
        /\ UNCHANGED <<raw, mutex, uart, refused, stuck>>
    BY <1>4 DEF Lock, Blocked, To, DataTypes, LogTypeOK
  <2>2. mutex # NONE /\ raw = {} /\ wants[t] = mutex /\ mutex \in Loggers
    <3>1. mutex # NONE
      BY <1>o, <1>r, <2>1
    <3>2. QED
      BY <1>r, <2>1, <3>1 DEF OwnerInv, DataTypes, LogTypeOK
  <2>3. held'[mutex] = t /\ \A u \in Loggers \ {mutex} : held'[u] = held[u]
    BY <2>1, <2>2 DEF DataTypes, LogTypeOK
  <2>4. \A u \in Loggers : at[u] \notin Busy
    BY <1>0, <2>1, <2>2 DEF OwnerInv
  <2>5. OwnerInv'
    BY <1>0, <2>1, <2>2, <2>3, <2>4 DEF OwnerInv, Busy
  <2>6. PhaseInv'
    BY <1>2, <2>1, <2>2
  <2>7. QED
    BY <2>5, <2>6
<1>5. CASE Test(t)
  <2>1. at[t] = "test" /\ UNCHANGED <<mutex, held, wants, stuck>>
    BY <1>5 DEF Test
  <2>2. uart # "BUSY"
    <3> SUFFICES ASSUME uart = "BUSY" PROVE FALSE
      OBVIOUS
    <3>1. PICK u \in Loggers : at[u] = "send"
      BY DEF OwnerInv
    <3>2. CASE mutex = NONE
      BY <1>r, <2>1, <3>1, <3>2 DEF OwnerInv
    <3>3. CASE mutex # NONE
      BY <2>1, <3>1, <3>3 DEF OwnerInv, Busy
    <3>4. QED
      BY <3>2, <3>3
  <2>3. /\ at'[t] = "send" /\ uart' = "BUSY" /\ UNCHANGED <<raw, refused>>
        /\ \A u \in Loggers \ {t} : at'[u] = at[u]
    BY <1>5, <2>2 DEF Test, To, DataTypes, LogTypeOK
  <2>4. OwnerInv'
    BY <1>0, <2>1, <2>3 DEF OwnerInv, Busy
  <2>5. PhaseInv'
    BY <1>2, <2>1, <2>3
  <2>6. QED
    BY <2>4, <2>5
<1>6. CASE Send(t)
  <2>1. /\ at[t] = "send" /\ at'[t] = (IF t \in raw THEN "out" ELSE "give")
        /\ uart' = "READY" /\ raw' = raw \ {t}
        /\ UNCHANGED <<mutex, held, wants, refused, stuck>>
        /\ \A u \in Loggers \ {t} : at'[u] = at[u]
    BY <1>6 DEF Send, Transmitted, To, DataTypes, LogTypeOK
  <2>2. OwnerInv'
    <3>1. CASE t \in raw
      <4>1. mutex = NONE /\ t = "default" /\ raw' = {} /\ at'[t] = "out"
        BY <1>r, <2>1, <3>1 DEF OwnerInv
      <4>2. QED
        BY <1>0, <2>1, <4>1 DEF OwnerInv, Busy
    <3>2. CASE t \notin raw
      <4>1. mutex # NONE /\ raw = {} /\ raw' = {} /\ at'[t] = "give"
        BY <1>o, <1>r, <2>1, <3>2 DEF DataTypes, LogTypeOK
      <4>2. QED
        BY <1>0, <2>1, <4>1 DEF OwnerInv, Busy
    <3>3. QED
      BY <3>1, <3>2
  <2>3. PhaseInv'
    BY <1>2, <1>r, <2>1
  <2>4. QED
    BY <2>2, <2>3
<1>7. CASE Give(t)
  <2>1. at[t] = "give" /\ t \notin raw /\ mutex # NONE /\ raw = {}
    BY <1>7, <1>o, <1>r DEF Give, DataTypes, LogTypeOK
  <2>2. held[mutex] = t /\ mutex \in Loggers
    BY <2>1 DEF OwnerInv, Busy, DataTypes, LogTypeOK
  <2>3. /\ at'[t] = "out" /\ stuck' = FALSE /\ held' = [held EXCEPT ![mutex] = NONE]
        /\ UNCHANGED <<raw, mutex, wants, uart, refused>>
        /\ \A u \in Loggers \ {t} : at'[u] = at[u]
    BY <1>7, <2>2 DEF Give, To, DataTypes, LogTypeOK
  <2>4. held'[mutex] = NONE /\ \A u \in Loggers \ {mutex} : held'[u] = held[u]
    BY <2>2, <2>3 DEF DataTypes, LogTypeOK
  <2>5. \A u \in Loggers : at'[u] \notin Busy
    BY <2>1, <2>2, <2>3 DEF OwnerInv, Busy
  <2>6. OwnerInv'
    BY <1>0, <2>1, <2>3, <2>4, <2>5 DEF OwnerInv, Busy
  <2>7. PhaseInv'
    BY <1>2, <2>1, <2>3
  <2>8. QED
    BY <2>6, <2>7
<1>8. QED
  BY <1>1, <1>3, <1>4, <1>5, <1>6, <1>7 DEF LogStep

\* A task that begins to log, or the default task that prints at the start.
LEMMA BeginWhole ==
    ASSUME DataTypes, OwnerInv, NEW t \in Loggers, Out(t),
           \/ Log(t) /\ (t \in {"default", "dispatcher"} \/ mutex # NONE)
           \/ Write(t) /\ t = "default" /\ mutex = NONE
    PROVE  OwnerInv'
<1>0. at[t] = "out" /\ t \notin raw /\ NONE \notin Loggers /\ raw \subseteq {"default"}
  BY DEF Out, OwnerInv, NONE, Loggers
<1>1. CASE Log(t) /\ (t \in {"default", "dispatcher"} \/ mutex # NONE)
  <2>1. /\ at'[t] = (IF mutex = NONE THEN "create" ELSE "take")
        /\ \A u \in Loggers \ {t} : at'[u] = at[u]
        /\ UNCHANGED <<raw, mutex, held, wants, uart, refused, stuck>>
    BY <1>1, LogBegins
  <2>2. QED
    BY <1>0, <1>1, <2>1 DEF OwnerInv, Busy, Loggers
<1>2. CASE Write(t) /\ t = "default" /\ mutex = NONE
  <2>1. /\ at'[t] = "test" /\ raw' = raw \cup {t}
        /\ \A u \in Loggers \ {t} : at'[u] = at[u]
        /\ UNCHANGED <<mutex, held, wants, uart, refused, stuck>>
    BY <1>2 DEF Write, To, DataTypes, LogTypeOK
  <2>2. QED
    BY <1>0, <1>2, <2>1 DEF OwnerInv, Busy, Loggers
<1>3. QED
  BY <1>1, <1>2

\* A step of the default task outside Logging.
LEMMA DefaultWhole ==
    ASSUME DataTypes, PhaseInv, OwnerInv, Out("default"),
           NetInit \/ BootPrint \/ Poll \/ Changed \/ Blink
    PROVE  PhaseInv' /\ OwnerInv'
<1>0. /\ {"default", "tcpip", "dispatcher", "worker"} = Loggers /\ NONE \notin Loggers
      /\ "default" \in Tasks /\ Loggers \subseteq Tasks
  BY DEF Loggers, NONE, Tasks
<1>1. at["default"] = "out" /\ "default" \notin raw
  BY <1>0 DEF Out, OwnerInv
<1>2. \A u \in Loggers \ {"default"} : pc'[u] = pc[u]
  BY <1>0 DEF NetInit, BootPrint, Poll, Changed, Blink, Goto, DataTypes
<1>3. UNCHANGED <<running, mutex>>
  BY DEF NetInit, BootPrint, Poll, Changed, Blink, stages, logVars, Log, Write
<1>4. \A u \in Loggers \ {"default"} : at'[u] = at[u]
  BY <1>0 DEF NetInit, BootPrint, Poll, Changed, Blink, logVars, Log, Write, To, DataTypes,
     LogTypeOK
<1>5. Late' <=> Late
  BY <1>0, <1>3, <1>4 DEF Late
<1>6. CASE BootPrint
  <2>1. Booting /\ Write("default")
    BY <1>6 DEF BootPrint, Booting
  <2>2. mutex = NONE /\ at["dispatcher"] = "out"
    BY <2>1 DEF PhaseInv
  <2>3. OwnerInv'
    BY <1>0, <2>1, <2>2, BeginWhole
  <2>4. "default" \in raw'
    BY <2>1 DEF Write
  <2>5. QED
    BY <1>0, <1>2, <1>3, <1>4, <1>5, <2>2, <2>3, <2>4 DEF PhaseInv
<1>7. CASE NetInit \/ Changed \/ Blink
  <2>1. UNCHANGED logVars
    BY <1>7 DEF NetInit, Changed, Blink
  <2>2. OwnerInv'
    BY <2>1 DEF OwnerInv, logVars
  <2>3. Booting' => Booting
    BY <1>0, <1>7, <2>1 DEF NetInit, Changed, Blink, Goto, Booting, logVars, DataTypes
  <2>4. QED
    BY <1>0, <1>2, <1>3, <1>4, <1>5, <2>1, <2>2, <2>3 DEF PhaseInv, logVars
<1>8. CASE Poll
  <2>1. ~Booting'
    BY <1>0, <1>1, <1>8 DEF Poll, Goto, Booting, Log, logVars, DataTypes
  <2>2. OwnerInv'
    <3>1. CASE Log("default")
      BY <1>0, <3>1, BeginWhole
    <3>2. CASE UNCHANGED logVars
      BY <3>2 DEF OwnerInv, logVars
    <3>3. QED
      BY <1>8, <3>1, <3>2 DEF Poll
  <2>3. QED
    BY <1>0, <1>2, <1>3, <1>4, <1>5, <2>1, <2>2 DEF PhaseInv
<1>9. QED
  BY <1>6, <1>7, <1>8

\* A step that neither logs nor moves the default task to or from its start.
LEMMA QuietWhole ==
    ASSUME PhaseInv, OwnerInv, UNCHANGED <<logVars, running>>,
           pc'["default"] = pc["default"]
              \/ pc'["default"] \notin {"init", "print", "print again"},
           \A u \in {"tcpip", "dispatcher", "worker"} :
              pc'[u] = pc[u] \/ pc'[u] \notin {"failed", "dispatch"}
    PROVE  PhaseInv' /\ OwnerInv'
<1>1. OwnerInv'
  BY DEF OwnerInv, logVars
<1>2. (Late' <=> Late) /\ (Booting' => Booting)
  BY DEF Late, Booting, logVars
<1>3. PhaseInv'
  BY <1>2 DEF PhaseInv, logVars
<1>4. QED
  BY <1>1, <1>3

\* A task behind the default task begins to log, after the mutex has been made.
LEMMA LaterWhole ==
    ASSUME DataTypes, PhaseInv, OwnerInv, Late, NEW t \in Loggers, Out(t),
           Log(t) \/ UNCHANGED logVars,
           pc'["default"] = pc["default"]
              \/ pc'["default"] \notin {"init", "print", "print again"}
    PROVE  PhaseInv' /\ OwnerInv'
<1>0. "dispatcher" \in Loggers
  BY DEF Loggers
<1>1. mutex # NONE /\ ~Booting
  BY DEF Late, PhaseInv
<1>2. OwnerInv'
  <2>1. CASE Log(t)
    BY <1>1, <2>1, BeginWhole
  <2>2. CASE UNCHANGED logVars
    BY <2>2 DEF OwnerInv, logVars
  <2>3. QED
    BY <2>1, <2>2
<1>3. Late' /\ ~Booting'
  <2>1. CASE Log(t)
    BY <1>0, <1>1, <2>1, LogBegins DEF Late, Booting
  <2>2. CASE UNCHANGED logVars
    BY <1>1, <2>2 DEF Late, Booting, logVars
  <2>3. QED
    BY <2>1, <2>2
<1>4. QED
  BY <1>2, <1>3 DEF PhaseInv

LEMMA WholeStep == DataTypes /\ WantsInv /\ WholeInv /\ Next => WholeInv'
<1> SUFFICES ASSUME DataTypes, WantsInv, WholeInv, Next, MutexMade'
             PROVE  PhaseInv' /\ OwnerInv'
  BY DEF WholeInv
<1>0. /\ {"default", "tcpip", "dispatcher", "worker"} = Loggers /\ NONE \notin Loggers
      /\ {"default", "tcpip", "dispatcher", "worker", "link"} = Tasks
      /\ Setters = {"default", "link"}
  BY DEF Loggers, NONE, Tasks, Setters
<1>m. MutexMade
  <2>1. idled = "first" => idled' = "first"
    BY StepCases DEF PacketArrives, QueueTimesOut, ReceivesTimeOut, PhyChanges, DelayEnds,
       NetInit, BootPrint, Poll, Changed, Blink, ReadPhy, LinkSame, LinkDown, LinkUp, FlagLoad,
       FlagStore, FlagsSet, TcpIpQueue, DispatcherReceive, Dispatch, Work, LogFailure, linkVars,
       stages
  <2>2. QED
    BY <2>1 DEF MutexMade
<1>i. PhaseInv /\ OwnerInv
  BY <1>m DEF WholeInv
\* The steps that only move a task.
<1>q. ASSUME NEW t \in Tasks, NEW p, Goto(t, p), UNCHANGED <<logVars, running>>,
             p \notin {"init", "print", "print again", "failed", "dispatch"}
      PROVE  PhaseInv' /\ OwnerInv'
  <2>1. \A u \in Tasks : pc'[u] = pc[u] \/ pc'[u] = p
    BY <1>q DEF Goto, DataTypes
  <2>2. QED
    BY <1>0, <1>i, <1>q, <2>1, QuietWhole
<1>1. CASE PacketArrives
  BY <1>0, <1>1, <1>q DEF PacketArrives
<1>2. CASE QueueTimesOut
  <2>1. at["dispatcher"] \in {"lock", "send"} => mutex # NONE
    BY <1>0, <1>i DEF OwnerInv
  <2>2. Late
    BY <1>2, <1>i, <2>1 DEF QueueTimesOut, PhaseInv, Late
  <2>3. pc'["default"] = pc["default"] /\ UNCHANGED <<logVars, running>>
    BY <1>0, <1>2 DEF QueueTimesOut, Goto, DataTypes, stages
  <2>4. Late' /\ ~Booting' /\ OwnerInv'
    BY <1>i, <2>2, <2>3 DEF Late, Booting, PhaseInv, OwnerInv, logVars
  <2>5. QED
    BY <2>4 DEF PhaseInv
<1>3. CASE ReceivesTimeOut
  <2>1. mutex # NONE /\ at["dispatcher"] = "out"
    BY <1>0, <1>3 DEF ReceivesTimeOut, MutexMade
  <2>2. pc'["default"] = pc["default"] /\ UNCHANGED logVars
    BY <1>0, <1>3 DEF ReceivesTimeOut, DataTypes
  <2>3. Late' /\ ~Booting' /\ OwnerInv'
    BY <1>i, <2>1, <2>2 DEF Late, Booting, PhaseInv, OwnerInv, logVars
  <2>4. QED
    BY <2>3 DEF PhaseInv
<1>4. CASE PhyChanges
  BY <1>4, <1>i, QuietWhole DEF PhyChanges
<1>5. ASSUME NEW t \in Setters, DelayEnds(t) PROVE PhaseInv' /\ OwnerInv'
  <2>1. t \in Tasks /\ (Goto(t, "poll") \/ Goto(t, "read"))
    BY <1>0, <1>5 DEF DelayEnds
  <2>2. UNCHANGED <<logVars, running>>
    BY <1>5 DEF DelayEnds, stages
  <2>3. QED
    BY <1>q, <2>1, <2>2
<1>6. ASSUME NEW t \in Loggers, Scheduled(t), LogStep(t), UNCHANGED linkVars
      PROVE  PhaseInv' /\ OwnerInv'
  BY <1>6, <1>i, LogStepWhole
<1>7. CASE Out("default") /\ (NetInit \/ BootPrint \/ Poll \/ Changed \/ Blink)
  BY <1>7, <1>i, DefaultWhole
<1>8. CASE ReadPhy \/ LinkSame \/ LinkDown \/ LinkUp
  <2>1. \E p \in {"test", "delay", "flags"} : Goto("link", p)
    BY <1>8 DEF ReadPhy, LinkSame, LinkDown, LinkUp
  <2>2. UNCHANGED <<logVars, running>>
    BY <1>8 DEF ReadPhy, LinkSame, LinkDown, LinkUp, stages
  <2>3. QED
    BY <1>0, <1>q, <2>1, <2>2
<1>9. ASSUME NEW t \in Setters, FlagLoad(t) \/ FlagStore(t) \/ FlagsSet(t)
      PROVE  PhaseInv' /\ OwnerInv'
  <2>1. UNCHANGED <<logVars, running>>
    BY <1>9 DEF FlagLoad, FlagStore, FlagsSet, stages
  <2>2. CASE UNCHANGED pc
    BY <1>i, <2>1, <2>2, QuietWhole
  <2>3. CASE \E p \in {"store", "flags", "blink", "delay"} : Goto(t, p)
    BY <1>0, <1>q, <2>1, <2>3
  <2>4. QED
    BY <1>9, <2>2, <2>3 DEF FlagLoad, FlagStore, FlagsSet
<1>10. CASE TcpIpQueue
  <2>1. /\ UNCHANGED <<logVars, running>>
        /\ Goto("tcpip", "receive") \/ Goto("tcpip", "full")
    BY <1>10 DEF TcpIpQueue
  <2>2. QED
    BY <1>0, <1>q, <2>1
<1>11. CASE Scheduled("dispatcher") /\ Out("dispatcher") /\ DispatcherReceive
  <2>1. ~Booting
    BY <1>11, <1>i, DispatcherWaits
  <2>2. OwnerInv'
    BY <1>0, <1>11, <1>i, BeginWhole DEF DispatcherReceive
  <2>3. /\ at'["dispatcher"] = (IF mutex = NONE THEN "create" ELSE "take")
        /\ \A u \in Loggers \ {"dispatcher"} : at'[u] = at[u]
        /\ UNCHANGED <<raw, mutex>>
    BY <1>0, <1>11, LogBegins DEF DispatcherReceive
  <2>4. /\ running' = running /\ pc'["dispatcher"] = "dispatch"
        /\ \A u \in Tasks \ {"dispatcher"} : pc'[u] = pc[u]
    BY <1>0, <1>11 DEF DispatcherReceive, Goto, DataTypes
  <2>5. ~Booting'
    BY <1>0, <2>1, <2>3, <2>4 DEF Booting
  <2>6. ~Late' => ~Late /\ at'["dispatcher"] = "create"
    BY <2>3 DEF Late
  <2>7. PhaseInv'
    BY <1>0, <1>i, <2>3, <2>4, <2>5, <2>6 DEF PhaseInv
  <2>8. QED
    BY <2>2, <2>7
<1>12. CASE Out("dispatcher") /\ Dispatch
  <2>1. Late
    BY <1>0, <1>12, <1>i DEF Out, Dispatch, PhaseInv
  <2>2. pc'["default"] = pc["default"] /\ (Log("dispatcher") \/ UNCHANGED logVars)
    BY <1>0, <1>12 DEF Dispatch, Goto, DataTypes
  <2>3. QED
    BY <1>0, <1>12, <1>i, <2>1, <2>2, LaterWhole
<1>13. CASE Out("worker") /\ Work
  <2>1. Late
    BY <1>13, <1>i DEF Work, PhaseInv
  <2>2. pc' = pc /\ (Log("worker") \/ UNCHANGED logVars)
    BY <1>13 DEF Work
  <2>3. QED
    BY <1>0, <1>13, <1>i, <2>1, <2>2, LaterWhole
<1>14. ASSUME NEW t \in Loggers, Out(t), LogFailure(t) PROVE PhaseInv' /\ OwnerInv'
  <2>1. /\ pc[t] = "failed" /\ Log(t) /\ pc'[t] = "receive" /\ running' = running
        /\ \A u \in Loggers \ {t} : pc'[u] = pc[u]
    BY <1>0, <1>14 DEF LogFailure, Goto, DataTypes, stages
  <2>2. pc'["default"] = pc["default"] \/ pc'["default"] = "receive"
    BY <1>0, <2>1
  <2>3. CASE Late
    BY <1>14, <1>i, <2>1, <2>2, <2>3, LaterWhole
  <2>4. CASE ~Late
    <3>1. t = "default"
      BY <1>0, <1>i, <2>1, <2>4 DEF PhaseInv
    <3>2. at["default"] = "out" /\ "default" \notin raw
      BY <1>0, <1>14, <1>i, <3>1 DEF Out, OwnerInv
    <3>3. OwnerInv'
      BY <1>14, <1>i, <2>1, <3>1, BeginWhole
    <3>4. /\ \A u \in Loggers \ {t} : at'[u] = at[u]
          /\ UNCHANGED <<raw, mutex>>
      BY <2>1, LogBegins
    <3>5. ~Booting' /\ ~Late'
      BY <1>0, <2>1, <2>4, <3>1, <3>2, <3>4 DEF Booting, Late
    <3>6. PhaseInv'
      BY <1>0, <1>i, <2>1, <2>4, <3>1, <3>4, <3>5 DEF PhaseInv
    <3>7. QED
      BY <3>3, <3>6
  <2>5. QED
    BY <2>3, <2>4
<1>15. QED
  BY <1>1, <1>2, <1>3, <1>4, <1>5, <1>6, <1>7, <1>8, <1>9, <1>10, <1>11, <1>12, <1>13, <1>14,
     StepCases

LEMMA WholeInvariant == Spec => []WholeInv
<1>1. Init => WholeInv
  <2> SUFFICES ASSUME Init PROVE PhaseInv /\ OwnerInv
    BY DEF WholeInv
  <2>1. pc["default"] = "init" /\ \A t \in {"tcpip", "dispatcher", "worker"} : pc[t] = "receive"
    BY DEF Init, Tasks, Loggers
  <2>2. \A t \in Loggers : at[t] = "out" /\ held[t] = NONE
    BY DEF Init, LogInit
  <2>3. {"default", "tcpip", "dispatcher", "worker"} = Loggers
    BY DEF Loggers
  <2>4. QED
    BY <2>1, <2>2, <2>3 DEF Init, LogInit, PhaseInv, OwnerInv
<1>2. FlagsInv /\ WholeInv /\ [Next]_vars => WholeInv'
  <2>1. ASSUME WholeInv, UNCHANGED vars PROVE WholeInv'
    <3>1. UNCHANGED <<logVars, pc, running, idled>>
      BY <2>1 DEF vars, linkVars, stages
    <3>2. (PhaseInv => PhaseInv') /\ (MutexMade' => MutexMade)
      BY <3>1 DEF PhaseInv, Late, Booting, MutexMade, logVars
    <3>3. OwnerInv => OwnerInv'
      BY <3>1 DEF OwnerInv, logVars
    <3>4. QED
      BY <2>1, <3>2, <3>3 DEF WholeInv
  <2>2. QED
    BY <2>1, WholeStep DEF FlagsInv
<1>3. QED
  BY <1>1, <1>2, FlagsInvariant, PTL DEF Spec

\* No message of app_printf or of the start is refused by the UART or mixed with
\* another one, and the mutex that is given is the one that was taken, in every
\* run in which the first two messages are not those of two tasks of one priority.
THEOREM MessagesAreWhole == Spec => []MessagesWhole
<1>1. FlagsInv /\ WholeInv => MessagesWhole
  <2> SUFFICES ASSUME FlagsInv, WholeInv, MutexMade,
                      NEW t \in Loggers, NEW u \in Loggers, {at[t], at[u]} \subseteq {"test", "send"}
               PROVE  ~refused /\ ~stuck /\ t = u
    BY DEF MessagesWhole, WholeInv, OwnerInv
  <2>1. OwnerInv
    BY DEF WholeInv
  <2>2. CASE mutex = NONE
    BY <2>1, <2>2 DEF OwnerInv
  <2>3. CASE mutex # NONE
    BY <2>1, <2>3 DEF OwnerInv, Busy
  <2>4. QED
    BY <2>2, <2>3
<1>2. QED
  BY <1>1, FlagsInvariant, WholeInvariant, PTL
-----------------------------------------------------------------------------
(* What the interface is once the tasks have looked at the cable *)

\* What the link thread has to set when the cable is pulled out and plugged in.
DownFirst == << <<"up", FALSE>>, <<"link", FALSE>> >>
DownLast == << <<"link", FALSE>> >>
UpFirst == << <<"up", TRUE>>, <<"link", TRUE>> >>
UpLast == << <<"link", TRUE>> >>

Setting == pc["link"] \in {"flags", "store"} /\ todo["link"] # <<>>

\* The default task is about to set the interface as it has seen the link.
Correcting == \/ pc["default"] = "changed"
              \/ pc["default"] \in {"flags", "store"} /\ todo["default"] # <<>>

\* The MAC, the link flag and what the link thread has seen of the PHY.
SeenInv ==
    /\ ~excused /\ seen \in Speeds => phy \in {seen, "down"}
    /\ ~excused /\ mac # "stopped" /\ seen # "down" => mac = seen
    /\ ~Setting => (mac = "stopped" <=> ~flags["link"])
    /\ Setting => \/ todo["link"] \in {DownFirst, DownLast} /\ flags["link"] /\ mac = "stopped"
                  \/ todo["link"] \in {UpFirst, UpLast} /\ ~flags["link"] /\ mac # "stopped"
    /\ seen = "down" /\ pc["link"] # "test" => mac = "stopped"
    /\ seen \in Speeds /\ pc["link"] \in {"flags", "store", "delay"} => mac # "stopped"

\* The default task believes that the link is up.
Believes == last \/ pc["default"] = "init"

\* While the default task believes that the link is up, a link that is up has
\* an interface that is up, whoever has stored the flags over whose changes.
UpInv ==
    /\ ~Setting /\ flags["link"] /\ Believes /\ ~Correcting => flags["up"]
    /\ pc["link"] = "flags" /\ todo["link"] = UpLast /\ Believes => flags["up"]
    /\ pc["link"] = "store" /\ todo["link"] = UpLast /\ Believes => copy["link"]["up"]
    /\ pc["link"] = "store" /\ todo["link"] = UpFirst => copy["link"]["up"]

\* What the default task does about the link it has seen.
PollInv ==
    /\ pc["default"] \in {"changed", "flags", "store", "blink"} => linkNow = last
    /\ pc["default"] \in {"flags", "store"} => todo["default"] \in {<<>>, << <<"up", last>> >>}
    /\ pc["default"] = "store" => copy["default"]["up"] = last
    /\ last /\ pc["default"] # "changed" => ~led
    /\ pc["default"] = "init" => ~led

CableInv == SeenInv /\ UpInv /\ PollInv

LEMMA Stages ==
    /\ Head(DownFirst) = <<"up", FALSE>> /\ Tail(DownFirst) = DownLast
    /\ Head(DownLast) = <<"link", FALSE>> /\ Tail(DownLast) = <<>>
    /\ Head(UpFirst) = <<"up", TRUE>> /\ Tail(UpFirst) = UpLast
    /\ Head(UpLast) = <<"link", TRUE>> /\ Tail(UpLast) = <<>>
    /\ DownFirst # <<>> /\ DownLast # <<>> /\ UpFirst # <<>> /\ UpLast # <<>>
    /\ UpFirst # UpLast /\ UpFirst # DownFirst /\ UpFirst # DownLast
    /\ UpLast # DownFirst /\ UpLast # DownLast
    /\ DownFirst[1] = <<"up", FALSE>> /\ DownLast[1] = <<"link", FALSE>>
    /\ UpFirst[1] = <<"up", TRUE>> /\ UpLast[1] = <<"link", TRUE>>
    /\ Head(DownFirst)[1] = "up" /\ Head(DownFirst)[2] = FALSE
    /\ Head(DownLast)[1] = "link" /\ Head(DownLast)[2] = FALSE
    /\ Head(UpFirst)[1] = "up" /\ Head(UpFirst)[2] = TRUE
    /\ Head(UpLast)[1] = "link" /\ Head(UpLast)[2] = TRUE
    /\ DownFirst[1][1] = "up" /\ UpFirst[1][1] = "up"
    /\ DownLast[1][1] = "link" /\ DownLast[1][2] = FALSE
    /\ UpLast[1][1] = "link" /\ UpLast[1][2] = TRUE
<1>1. \A x, y : /\ Head(<<x, y>>) = x /\ Tail(<<x, y>>) = <<y>> /\ <<x, y>>[1] = x
                /\ Head(<<x>>) = x /\ Tail(<<x>>) = <<>> /\ <<x>>[1] = x
                /\ <<x, y>> # <<>> /\ <<x>> # <<>>
  OBVIOUS
<1>2. <<"up", TRUE>> # <<"up", FALSE>> /\ <<"up", TRUE>> # <<"link", FALSE>>
      /\ <<"link", TRUE>> # <<"up", FALSE>> /\ <<"link", TRUE>> # <<"link", FALSE>>
      /\ <<"link", TRUE>> # <<"up", TRUE>>
  OBVIOUS
<1>3. \A x \in {"up", "link"}, v \in BOOLEAN : <<x, v>>[1] = x /\ <<x, v>>[2] = v
  OBVIOUS
<1>4. QED
  BY <1>1, <1>2, <1>3 DEF DownFirst, DownLast, UpFirst, UpLast

LEMMA CableStart == Init => CableInv
<1> SUFFICES ASSUME Init PROVE CableInv
  OBVIOUS
<1>1. pc["default"] = "init" /\ pc["link"] = "read"
  BY DEF Init, Tasks, Loggers
<1>2. flags["link"] = (phy # "down") /\ flags["up"] = TRUE
  BY DEF Init
<1>3. phy \in PhyStates
  BY LinkAssumption DEF Init, PhyStates
<1>4. /\ seen = phy
      /\ phy = "down" => mac = "stopped"
      /\ phy = "negotiating" => mac \in Speeds /\ excused
      /\ phy \in Speeds => mac = phy
  BY <1>3, Constants DEF Init
<1>5. SeenInv
  BY <1>1, <1>2, <1>3, <1>4, Constants DEF SeenInv, Setting, PhyStates
<1>6. UpInv /\ PollInv
  BY <1>1, <1>2 DEF UpInv, PollInv, Init
<1>7. QED
  BY <1>5, <1>6 DEF CableInv

\* Where it matters to the cable in which step the default task is.
Polling == {"init", "changed", "flags", "store", "blink"}

\* A step that changes nothing of what matters.
LEMMA CableKept ==
    CableInv
      /\ pc'["link"] = pc["link"]
      /\ (pc'["default"] = pc["default"] \/ {pc["default"], pc'["default"]} \cap Polling = {})
      /\ UNCHANGED <<phy, excused, seen, mac, flags, todo, copy, linkNow, last, led>>
      => CableInv'
<1> SUFFICES ASSUME CableInv, pc'["link"] = pc["link"],
                    pc'["default"] = pc["default"]
                      \/ {pc["default"], pc'["default"]} \cap Polling = {},
                    UNCHANGED <<phy, excused, seen, mac, flags, todo, copy, linkNow, last, led>>
             PROVE  CableInv'
  OBVIOUS
<1>1. \A p \in Polling : pc'["default"] = p <=> pc["default"] = p
  OBVIOUS
<1>2. SeenInv'
  BY DEF CableInv, SeenInv, Setting
<1>3. (Believes' <=> Believes) /\ (Correcting' <=> Correcting)
  BY <1>1 DEF Believes, Correcting, Polling
<1>4. UpInv'
  BY <1>3 DEF CableInv, UpInv, Setting
<1>5. PollInv'
  BY <1>1 DEF CableInv, PollInv, Polling
<1>6. QED
  BY <1>2, <1>4, <1>5 DEF CableInv

\* The steps that do not concern the cable, and those that do.
LEMMA CableCases ==
    ASSUME DataTypes, Next
    PROVE  \/ PhyChanges \/ DelayEnds("link")
           \/ NetInit \/ Poll \/ Changed \/ Blink
           \/ ReadPhy \/ LinkSame \/ LinkDown \/ LinkUp
           \/ \E t \in Setters : /\ Scheduled(t) /\ Out(t)
                                 /\ FlagLoad(t) \/ FlagStore(t) \/ FlagsSet(t)
           \/ /\ pc'["link"] = pc["link"]
              /\ pc'["default"] = pc["default"] \/ {pc["default"], pc'["default"]} \cap Polling = {}
              /\ UNCHANGED <<phy, excused, seen, mac, flags, todo, copy, linkNow, last, led>>
<1> USE DEF network, thread, poll, setting
<1>0. /\ {"default", "tcpip", "dispatcher", "worker", "link"} = Tasks
      /\ Setters = {"default", "link"} /\ Loggers = Tasks \ {"link"}
  BY DEF Tasks, Loggers, Setters
<1>1. CASE PacketArrives \/ QueueTimesOut \/ ReceivesTimeOut
  <2>1. pc'["link"] = pc["link"] /\ pc'["default"] = pc["default"]
    BY <1>0, <1>1 DEF PacketArrives, QueueTimesOut, ReceivesTimeOut, Goto, DataTypes
  <2>2. QED
    BY <1>1, <2>1 DEF PacketArrives, QueueTimesOut, ReceivesTimeOut
<1>2. CASE DelayEnds("default")
  <2>1. pc["default"] = "delay" /\ pc'["default"] = "poll" /\ pc'["link"] = pc["link"]
    BY <1>0, <1>2 DEF DelayEnds, Goto, DataTypes
  <2>2. QED
    BY <1>2, <2>1 DEF DelayEnds, Polling
<1>3. CASE UNCHANGED linkVars
  BY <1>3 DEF linkVars
<1>4. CASE BootPrint
  <2>1. /\ pc["default"] \in {"print", "print again"}
        /\ pc'["default"] \in {"print again", "poll"} /\ pc'["link"] = pc["link"]
    BY <1>0, <1>4 DEF BootPrint, Goto, DataTypes
  <2>2. {pc["default"], pc'["default"]} \cap Polling = {}
    BY <2>1 DEF Polling
  <2>3. QED
    BY <1>4, <2>1, <2>2 DEF BootPrint
<1>5. CASE TcpIpQueue \/ DispatcherReceive \/ Dispatch \/ Work
  <2>1. pc'["link"] = pc["link"] /\ pc'["default"] = pc["default"]
    BY <1>0, <1>5 DEF TcpIpQueue, DispatcherReceive, Dispatch, Work, Goto, DataTypes
  <2>2. QED
    BY <1>5, <2>1 DEF TcpIpQueue, DispatcherReceive, Dispatch, Work
<1>6. ASSUME NEW t \in Loggers, LogFailure(t)
      PROVE  /\ pc'["link"] = pc["link"]
             /\ pc'["default"] = pc["default"] \/ {pc["default"], pc'["default"]} \cap Polling = {}
             /\ UNCHANGED <<phy, excused, seen, mac, flags, todo, copy, linkNow, last, led>>
  <2>1. /\ pc'["link"] = pc["link"]
        /\ \/ pc'["default"] = pc["default"]
           \/ pc["default"] = "failed" /\ pc'["default"] = "receive"
    BY <1>0, <1>6 DEF LogFailure, Goto, DataTypes
  <2>2. QED
    BY <1>6, <2>1 DEF LogFailure, Polling
<1>7. QED
  BY <1>0, <1>1, <1>2, <1>3, <1>4, <1>5, <1>6, StepCases

\* The cable, and the steps of the link thread up to setting flags.
LEMMA LinkFollows ==
    DataTypes /\ LinkInv /\ CableInv
      /\ (PhyChanges \/ DelayEnds("link") \/ ReadPhy \/ LinkSame \/ LinkDown \/ LinkUp)
      => CableInv'
<1> SUFFICES ASSUME DataTypes, LinkInv, CableInv,
                    PhyChanges \/ DelayEnds("link") \/ ReadPhy \/ LinkSame \/ LinkDown \/ LinkUp
             PROVE  CableInv'
  OBVIOUS
<1> USE DEF network, thread, poll, setting
<1>0. /\ "link" \in Tasks /\ "default" \in Tasks /\ "link" \in Setters /\ "default" \in Setters
  BY Constants DEF Tasks, Loggers
<1>1. /\ UNCHANGED <<flags, copy, linkNow, last, led>>
      /\ pc'["default"] = pc["default"] /\ todo'["default"] = todo["default"]
  BY <1>0 DEF PhyChanges, DelayEnds, ReadPhy, LinkSame, LinkDown, LinkUp, Goto, DataTypes
<1>2. PollInv' /\ (Believes' <=> Believes) /\ (Correcting' <=> Correcting)
  BY <1>1 DEF CableInv, PollInv, Believes, Correcting
<1>3. ASSUME ~Setting, ~Setting', pc'["link"] \notin {"store"} PROVE UpInv'
  <2>1. pc'["link"] = "flags" => todo'["link"] # UpLast
    BY <1>3, Stages DEF Setting
  <2>2. QED
    BY <1>1, <1>2, <1>3, <2>1 DEF CableInv, UpInv
<1>4. CASE PhyChanges
  <2>1. UNCHANGED <<pc, todo, seen, mac>>
    BY <1>4 DEF PhyChanges
  <2>2. UpInv'
    BY <1>1, <1>2, <2>1 DEF CableInv, UpInv, Setting
  <2>3. ~excused' /\ seen \in Speeds => ~excused /\ phy \in {seen, "down"} /\ phy' \in {seen, "down"}
    <3>1. CASE phy = "down"
      BY <1>4, <3>1, Constants DEF PhyChanges, CableInv, SeenInv
    <3>2. CASE phy # "down" /\ seen \in Speeds /\ ~excused
      <4>1. phy = seen /\ phy # "negotiating"
        BY <3>2, Constants DEF CableInv, SeenInv
      <4>2. phy' = "down"
        BY <1>4, <3>2, <4>1 DEF PhyChanges
      <4>3. QED
        BY <3>2, <4>1, <4>2
    <3>3. excused => excused'
      BY <1>4 DEF PhyChanges
    <3>4. QED
      BY <3>1, <3>2, <3>3
  <2>4. excused => excused'
    BY <1>4 DEF PhyChanges
  <2>5. SeenInv'
    BY <1>1, <2>1, <2>3, <2>4 DEF CableInv, SeenInv, Setting
  <2>6. QED
    BY <1>2, <2>2, <2>5 DEF CableInv
<1>5. CASE DelayEnds("link")
  <2>1. pc["link"] = "delay" /\ pc'["link"] = "read" /\ UNCHANGED <<todo, seen, mac, phy, excused>>
    BY <1>0, <1>5 DEF DelayEnds, Goto, DataTypes
  <2>2. SeenInv'
    BY <1>1, <2>1 DEF CableInv, SeenInv, Setting
  <2>3. QED
    BY <1>2, <1>3, <2>1, <2>2 DEF CableInv, Setting
<1>6. CASE ReadPhy
  <2>1. /\ pc["link"] = "read" /\ pc'["link"] = "test" /\ seen' = phy
        /\ UNCHANGED <<todo, mac, phy, excused>>
    BY <1>0, <1>6 DEF ReadPhy, Goto, DataTypes
  <2>2. ~excused /\ mac # "stopped" /\ seen' # "down" => mac = seen'
    <3>1. mac # "stopped" => seen # "down"
      BY <2>1 DEF CableInv, SeenInv
    <3>2. ~excused /\ mac # "stopped" => mac = seen /\ mac \in Speeds
      BY <3>1 DEF CableInv, SeenInv, DataTypes
    <3>3. ~excused /\ mac # "stopped" => phy \in {mac, "down"}
      BY <3>2 DEF CableInv, SeenInv
    <3>4. QED
      BY <2>1, <3>3
  <2>3. SeenInv'
    BY <1>1, <2>1, <2>2 DEF CableInv, SeenInv, Setting
  <2>4. QED
    BY <1>2, <1>3, <2>1, <2>3 DEF CableInv, Setting
<1>7. CASE LinkSame
  <2>1. /\ pc["link"] = "test" /\ pc'["link"] = "delay"
        /\ UNCHANGED <<todo, seen, mac, phy, excused>>
        /\ \/ flags["link"] /\ seen # "down"
           \/ ~flags["link"] /\ seen \notin Speeds
    BY <1>0, <1>7, Constants DEF LinkSame, Goto, DataTypes
  <2>2. SeenInv'
    BY <1>1, <2>1 DEF CableInv, SeenInv, Setting
  <2>3. QED
    BY <1>2, <1>3, <2>1, <2>2 DEF CableInv, Setting
<1>8. CASE LinkDown
  <2>1. /\ pc["link"] = "test" /\ pc'["link"] = "flags" /\ flags["link"] /\ seen = "down"
        /\ mac' = "stopped" /\ todo'["link"] = DownFirst
        /\ UNCHANGED <<seen, phy, excused>>
    BY <1>0, <1>8 DEF LinkDown, Goto, DataTypes, DownFirst
  <2>2. SeenInv'
    BY <1>1, <2>1, Constants, Stages DEF CableInv, SeenInv, Setting
  <2>3. UpInv'
    BY <1>1, <2>1, Stages DEF UpInv, Setting
  <2>4. QED
    BY <1>2, <2>2, <2>3 DEF CableInv
<1>9. CASE LinkUp
  <2>1. /\ pc["link"] = "test" /\ pc'["link"] = "flags" /\ ~flags["link"] /\ seen # "down"
        /\ mac' = speed' /\ todo'["link"] = UpFirst
        /\ UNCHANGED <<seen, phy>>
    BY <1>0, <1>9 DEF LinkUp, Goto, DataTypes, UpFirst
  <2>2. /\ speed' \in Speeds /\ (seen \in Speeds => speed' = seen)
        /\ ~excused' => ~excused /\ seen # "negotiating"
    BY <1>9 DEF LinkUp, DataTypes, PhyStates
  <2>3. seen \in Speeds \/ seen = "negotiating"
    BY <2>1 DEF DataTypes, PhyStates
  <2>4. SeenInv'
    BY <1>1, <2>1, <2>2, <2>3, Constants, Stages DEF CableInv, SeenInv, Setting
  <2>5. UpInv'
    BY <1>1, <2>1, Stages DEF UpInv, Setting
  <2>6. QED
    BY <1>2, <2>4, <2>5 DEF CableInv
<1>10. QED
  BY <1>4, <1>5, <1>6, <1>7, <1>8, <1>9

\* The steps of the default task outside of the flags.
LEMMA DefaultFollows ==
    DataTypes /\ CableInv /\ (NetInit \/ Poll \/ Changed \/ Blink) => CableInv'
<1> SUFFICES ASSUME DataTypes, CableInv, NetInit \/ Poll \/ Changed \/ Blink PROVE CableInv'
  OBVIOUS
<1> USE DEF network, thread, poll, setting
<1>0. /\ "link" \in Tasks /\ "default" \in Tasks /\ "link" \in Setters /\ "default" \in Setters
      /\ linkNow \in BOOLEAN /\ last \in BOOLEAN /\ led \in BOOLEAN
      /\ flags["link"] \in BOOLEAN /\ flags["up"] \in BOOLEAN
  BY Constants DEF Tasks, Loggers, DataTypes, Flags
<1>1. /\ UNCHANGED <<phy, excused, seen, mac, flags, copy>>
      /\ pc'["link"] = pc["link"] /\ todo'["link"] = todo["link"]
  BY <1>0 DEF NetInit, Poll, Changed, Blink, Goto, DataTypes
<1>2. SeenInv'
  BY <1>1 DEF CableInv, SeenInv, Setting
<1>3. pc["link"] \in {"flags", "store"} /\ todo["link"] = UpLast => ~flags["link"]
  BY Stages DEF CableInv, SeenInv, Setting
\* What is believed is what is believed before, or what has just been read.
<1>4. ASSUME Believes' => Believes \/ flags["link"],
             Believes' /\ ~Correcting' /\ flags["link"] => Believes /\ ~Correcting
      PROVE  UpInv'
  BY <1>0, <1>1, <1>3, <1>4 DEF CableInv, UpInv, Setting
<1>5. CASE NetInit
  <2>1. /\ pc["default"] = "init" /\ pc'["default"] = "print" /\ last' = flags["link"]
        /\ UNCHANGED <<linkNow, led>>
    BY <1>0, <1>5 DEF NetInit, Goto, DataTypes
  <2>2. UpInv'
    BY <1>4, <2>1 DEF Believes, Correcting
  <2>3. PollInv'
    BY <2>1 DEF CableInv, PollInv
  <2>4. QED
    BY <1>2, <2>2, <2>3 DEF CableInv
<1>6. CASE Poll
  <2>1. /\ pc["default"] = "poll" /\ linkNow' = flags["link"] /\ led' = led
        /\ last' = linkNow'
        /\ \/ pc'["default"] = "changed"
           \/ pc'["default"] = "blink" /\ last' = last
    BY <1>0, <1>6 DEF Poll, Goto, DataTypes
  <2>2. UpInv'
    BY <1>0, <1>4, <2>1 DEF Believes, Correcting
  <2>3. PollInv'
    BY <2>1 DEF CableInv, PollInv
  <2>4. QED
    BY <1>2, <2>2, <2>3 DEF CableInv
<1>7. CASE Changed
  <2>1. /\ pc["default"] = "changed" /\ pc'["default"] = "flags"
        /\ UNCHANGED <<last, linkNow>> /\ led' = (led /\ ~linkNow)
        /\ todo'["default"] = << <<"up", linkNow>> >>
    BY <1>0, <1>7 DEF Changed, Goto, DataTypes
  <2>2. linkNow = last /\ todo'["default"] # <<>>
    BY <2>1 DEF CableInv, PollInv
  <2>3. UpInv'
    BY <1>4, <2>1, <2>2 DEF Believes, Correcting
  <2>4. PollInv'
    BY <1>0, <2>1, <2>2 DEF CableInv, PollInv
  <2>5. QED
    BY <1>2, <2>3, <2>4 DEF CableInv
<1>8. CASE Blink
  <2>1. /\ pc["default"] = "blink" /\ pc'["default"] = "delay"
        /\ UNCHANGED <<last, linkNow>> /\ led' = (IF linkNow THEN led ELSE ~led)
    BY <1>0, <1>8 DEF Blink, Goto, DataTypes
  <2>2. linkNow = last
    BY <2>1 DEF CableInv, PollInv
  <2>3. UpInv'
    BY <1>4, <2>1 DEF Believes, Correcting
  <2>4. PollInv'
    BY <1>0, <2>1, <2>2 DEF CableInv, PollInv
  <2>5. QED
    BY <1>2, <2>3, <2>4 DEF CableInv
<1>9. QED
  BY <1>5, <1>6, <1>7, <1>8

\* The default task sets the interface as it has seen the link.
LEMMA DefaultSets ==
    DataTypes /\ DefaultInv /\ CableInv
      /\ (FlagLoad("default") \/ FlagStore("default") \/ FlagsSet("default"))
      => CableInv'
<1> SUFFICES ASSUME DataTypes, DefaultInv, CableInv,
                    FlagLoad("default") \/ FlagStore("default") \/ FlagsSet("default")
             PROVE  CableInv'
  OBVIOUS
<1> USE DEF network, thread, poll, setting
<1>0. /\ "link" \in Tasks /\ "default" \in Tasks /\ "link" \in Setters /\ "default" \in Setters
      /\ last \in BOOLEAN /\ flags["up"] \in BOOLEAN /\ DOMAIN flags = {"up", "link"}
  BY Constants DEF Tasks, Loggers, DataTypes, Flags
<1>1. /\ UNCHANGED <<phy, excused, seen, mac, linkNow, last, led>>
      /\ pc'["link"] = pc["link"] /\ todo'["link"] = todo["link"] /\ copy'["link"] = copy["link"]
  BY <1>0 DEF FlagLoad, FlagStore, FlagsSet, Goto, DataTypes
<1>2. pc["default"] \in {"flags", "store"} /\ (Believes <=> last)
  BY DEF FlagLoad, FlagStore, FlagsSet, Believes
<1>3. todo["default"] # <<>> =>
         /\ todo["default"] = << <<"up", last>> >>
         /\ Head(todo["default"])[1] = "up" /\ Head(todo["default"])[2] = last
         /\ Tail(todo["default"]) = <<>>
  <2>1. todo["default"] # <<>> => todo["default"] = << <<"up", last>> >>
    BY <1>2 DEF CableInv, PollInv
  <2>2. \A x : Head(<<x>>) = x /\ Tail(<<x>>) = <<>>
    OBVIOUS
  <2>3. <<"up", last>>[1] = "up" /\ <<"up", last>>[2] = last
    OBVIOUS
  <2>4. QED
    BY <2>1, <2>2, <2>3
<1>4. CASE FlagLoad("default")
  <2>1. /\ pc["default"] = "flags" /\ todo["default"] # <<>> /\ flags' = flags
        /\ \/ /\ flags["up"] = last /\ todo'["default"] = <<>> /\ UNCHANGED <<copy, pc>>
           \/ /\ copy'["default"] = [flags EXCEPT !["up"] = last]
              /\ pc'["default"] = "store" /\ todo'["default"] = todo["default"]
    <3> DEFINE flag == Head(todo["default"])[1]
               value == Head(todo["default"])[2]
    <3>1. /\ pc["default"] = "flags" /\ todo["default"] # <<>> /\ flags' = flags
          /\ \/ /\ flags[flag] = value /\ todo' = [todo EXCEPT !["default"] = Tail(@)]
                /\ UNCHANGED <<copy, pc>>
             \/ /\ copy' = [copy EXCEPT !["default"] = [flags EXCEPT ![flag] = value]]
                /\ Goto("default", "store") /\ UNCHANGED todo
      BY <1>4 DEF FlagLoad
    <3>2. flag = "up" /\ value = last /\ Tail(todo["default"]) = <<>>
      BY <1>3, <3>1
    <3> HIDE DEF flag, value
    <3>3. QED
      BY <1>0, <3>1, <3>2 DEF Goto, DataTypes
  <2>2. SeenInv'
    BY <1>1, <2>1 DEF CableInv, SeenInv, Setting
  <2>3. Believes' <=> last
    BY <1>1, <2>1 DEF Believes
  <2>4. PollInv'
    BY <1>0, <1>1, <1>3, <2>1 DEF CableInv, PollInv
  <2>5. UpInv'
    BY <1>1, <1>2, <2>1, <2>3 DEF CableInv, UpInv, Setting, Correcting
  <2>6. QED
    BY <2>2, <2>4, <2>5 DEF CableInv
<1>5. CASE FlagStore("default")
  <2>1. /\ pc["default"] = "store" /\ pc'["default"] = "flags" /\ todo'["default"] = <<>>
        /\ flags' = copy["default"]
    BY <1>0, <1>3, <1>5 DEF FlagStore, Goto, DataTypes
  <2>2. flags'["link"] = flags["link"] /\ flags'["up"] = last
    BY <2>1 DEF DefaultInv, CableInv, PollInv
  <2>3. SeenInv'
    BY <1>1, <2>2 DEF CableInv, SeenInv, Setting
  <2>4. Believes' <=> last
    BY <1>1, <2>1 DEF Believes
  <2>5. PollInv'
    BY <1>1, <2>1 DEF CableInv, PollInv
  <2>6. UpInv'
    BY <1>0, <1>1, <1>2, <2>2, <2>4 DEF CableInv, UpInv
  <2>7. QED
    BY <2>3, <2>5, <2>6 DEF CableInv
<1>6. CASE FlagsSet("default")
  <2>1. /\ pc["default"] = "flags" /\ pc'["default"] = "blink" /\ todo["default"] = <<>>
        /\ UNCHANGED <<flags, todo, copy>>
    BY <1>0, <1>6 DEF FlagsSet, Goto, DataTypes
  <2>2. SeenInv' /\ PollInv'
    BY <1>1, <2>1 DEF CableInv, SeenInv, Setting, PollInv
  <2>3. ~Correcting /\ (Believes' <=> Believes)
    BY <1>1, <2>1 DEF Correcting, Believes
  <2>4. UpInv'
    BY <1>1, <2>1, <2>3 DEF CableInv, UpInv, Setting
  <2>5. QED
    BY <2>2, <2>4 DEF CableInv
<1>7. QED
  BY <1>4, <1>5, <1>6

\* The link thread sets the flags one after the other; the default task may
\* have set the interface between its reading and its storing them.
LEMMA LinkSets ==
    DataTypes /\ LinkInv /\ CableInv /\ pc'["default"] = pc["default"]
      /\ (pc["default"] # "store")
      /\ (FlagLoad("link") \/ FlagStore("link") \/ FlagsSet("link"))
      => CableInv'
<1> SUFFICES ASSUME DataTypes, LinkInv, CableInv, pc'["default"] = pc["default"],
                    pc["default"] # "store",
                    FlagLoad("link") \/ FlagStore("link") \/ FlagsSet("link")
             PROVE  CableInv'
  OBVIOUS
<1> USE DEF network, thread, poll, setting
<1>0. /\ "link" \in Tasks /\ "default" \in Tasks /\ "link" \in Setters /\ "default" \in Setters
      /\ flags["up"] \in BOOLEAN /\ flags["link"] \in BOOLEAN /\ DOMAIN flags = {"up", "link"}
  BY Constants DEF Tasks, Loggers, DataTypes, Flags
<1>1. /\ UNCHANGED <<phy, excused, seen, mac, linkNow, last, led>>
      /\ todo'["default"] = todo["default"] /\ copy'["default"] = copy["default"]
      /\ pc["link"] \in {"flags", "store"}
  BY <1>0 DEF FlagLoad, FlagStore, FlagsSet, Goto, DataTypes
<1>2. (Believes' <=> Believes) /\ (Correcting' <=> Correcting) /\ PollInv'
  BY <1>1 DEF CableInv, Believes, Correcting, PollInv
<1>3. CASE FlagLoad("link")
  <2>1. /\ pc["link"] = "flags" /\ todo["link"] # <<>> /\ flags' = flags /\ Setting
    BY <1>3 DEF FlagLoad, Setting
  <2>2. \/ todo["link"] \in {DownFirst, DownLast} /\ flags["link"] /\ mac = "stopped"
        \/ todo["link"] \in {UpFirst, UpLast} /\ ~flags["link"] /\ mac # "stopped"
    BY <2>1 DEF CableInv, SeenInv
  <2>3. \/ /\ flags[Head(todo["link"])[1]] = Head(todo["link"])[2]
           /\ todo'["link"] = Tail(todo["link"]) /\ pc'["link"] = "flags"
        \/ /\ copy'["link"] = [flags EXCEPT ![Head(todo["link"])[1]] = Head(todo["link"])[2]]
           /\ todo'["link"] = todo["link"] /\ pc'["link"] = "store"
    BY <1>0, <1>3 DEF FlagLoad, Goto, DataTypes
  <2>4. CASE todo["link"] = DownFirst
    <3>1. todo'["link"] \in {DownFirst, DownLast} /\ pc'["link"] \in {"flags", "store"}
      BY <2>3, <2>4, Stages
    <3>2. SeenInv'
      BY <1>1, <2>1, <2>2, <2>4, <3>1, Stages DEF CableInv, SeenInv, Setting
    <3>3. UpInv'
      BY <3>1, Stages DEF UpInv, Setting
    <3>4. QED
      BY <1>2, <3>2, <3>3 DEF CableInv
  <2>5. CASE todo["link"] = DownLast
    <3>1. flags["link"] /\ todo'["link"] = DownLast /\ pc'["link"] = "store"
      BY <1>0, <2>2, <2>3, <2>5, Stages
    <3>2. SeenInv'
      BY <1>1, <2>1, <2>2, <2>5, <3>1, Stages DEF CableInv, SeenInv, Setting
    <3>3. UpInv'
      BY <3>1, Stages DEF UpInv, Setting
    <3>4. QED
      BY <1>2, <3>2, <3>3 DEF CableInv
  <2>6. CASE todo["link"] = UpFirst
    <3>1. \/ todo'["link"] = UpLast /\ pc'["link"] = "flags" /\ flags["up"]
          \/ todo'["link"] = UpFirst /\ pc'["link"] = "store" /\ copy'["link"]["up"]
      BY <1>0, <2>3, <2>6, Stages
    <3>2. SeenInv'
      BY <1>1, <2>1, <2>2, <2>6, <3>1, Stages DEF CableInv, SeenInv, Setting
    <3>3. UpInv'
      BY <2>1, <3>1, Stages DEF UpInv, Setting
    <3>4. QED
      BY <1>2, <3>2, <3>3 DEF CableInv
  <2>7. CASE todo["link"] = UpLast
    <3>1. /\ todo'["link"] = UpLast /\ pc'["link"] = "store" /\ copy'["link"]["up"] = flags["up"]
      BY <1>0, <2>2, <2>3, <2>7, Stages
    <3>2. SeenInv'
      BY <1>1, <2>1, <2>2, <2>7, <3>1, Stages DEF CableInv, SeenInv, Setting
    <3>3. UpInv'
      BY <1>2, <2>1, <2>7, <3>1, Stages DEF CableInv, UpInv, Setting
    <3>4. QED
      BY <1>2, <3>2, <3>3 DEF CableInv
  <2>8. QED
    BY <2>2, <2>4, <2>5, <2>6, <2>7
<1>4. CASE FlagStore("link")
  <2>1. /\ pc["link"] = "store" /\ pc'["link"] = "flags" /\ flags' = copy["link"]
        /\ todo'["link"] = Tail(todo["link"]) /\ Setting
    BY <1>0, <1>4 DEF FlagStore, Goto, DataTypes, Setting
  <2>2. \/ todo["link"] \in {DownFirst, DownLast} /\ flags["link"] /\ mac = "stopped"
        \/ todo["link"] \in {UpFirst, UpLast} /\ ~flags["link"] /\ mac # "stopped"
    BY <2>1 DEF CableInv, SeenInv
  <2>3. \/ todo["link"][1][1] = "link" /\ flags'["link"] = todo["link"][1][2]
        \/ todo["link"][1][1] = "up" /\ flags'["link"] = flags["link"]
    BY <2>1 DEF LinkInv
  <2>4. CASE todo["link"] = DownFirst
    <3>1. todo'["link"] = DownLast /\ flags'["link"] = flags["link"]
      BY <2>1, <2>3, <2>4, Stages
    <3>2. SeenInv'
      BY <1>1, <2>1, <2>2, <2>4, <3>1, Stages DEF CableInv, SeenInv, Setting
    <3>3. UpInv'
      BY <2>1, <3>1, Stages DEF UpInv, Setting
    <3>4. QED
      BY <1>2, <3>2, <3>3 DEF CableInv
  <2>5. CASE todo["link"] = DownLast
    <3>1. todo'["link"] = <<>> /\ flags'["link"] = FALSE
      BY <2>1, <2>3, <2>5, Stages
    <3>2. SeenInv'
      BY <1>1, <2>1, <2>2, <2>5, <3>1, Stages DEF CableInv, SeenInv, Setting
    <3>3. UpInv'
      BY <2>1, <3>1, Stages DEF UpInv, Setting
    <3>4. QED
      BY <1>2, <3>2, <3>3 DEF CableInv
  <2>6. CASE todo["link"] = UpFirst
    <3>1. todo'["link"] = UpLast /\ flags'["link"] = flags["link"] /\ flags'["up"]
      BY <2>1, <2>3, <2>6, Stages DEF CableInv, UpInv
    <3>2. SeenInv'
      BY <1>1, <2>1, <2>2, <2>6, <3>1, Stages DEF CableInv, SeenInv, Setting
    <3>3. UpInv'
      BY <2>1, <3>1, Stages DEF UpInv, Setting
    <3>4. QED
      BY <1>2, <3>2, <3>3 DEF CableInv
  <2>7. CASE todo["link"] = UpLast
    <3>1. /\ todo'["link"] = <<>> /\ flags'["link"] = TRUE
          /\ Believes => flags'["up"]
      BY <2>1, <2>3, <2>7, Stages DEF CableInv, UpInv
    <3>2. SeenInv'
      BY <1>1, <2>1, <2>2, <2>7, <3>1, Stages DEF CableInv, SeenInv, Setting
    <3>3. UpInv'
      BY <1>2, <2>1, <3>1, Stages DEF UpInv, Setting
    <3>4. QED
      BY <1>2, <3>2, <3>3 DEF CableInv
  <2>8. QED
    BY <2>2, <2>4, <2>5, <2>6, <2>7
<1>5. CASE FlagsSet("link")
  <2>1. /\ todo["link"] = <<>> /\ pc["link"] = "flags" /\ pc'["link"] = "delay"
        /\ UNCHANGED <<flags, todo, copy>>
    BY <1>0, <1>5 DEF FlagsSet, Goto, DataTypes
  <2>2. SeenInv'
    BY <1>1, <2>1 DEF CableInv, SeenInv, Setting
  <2>3. UpInv'
    BY <1>2, <2>1, Stages DEF CableInv, UpInv, Setting
  <2>4. QED
    BY <1>2, <2>2, <2>3 DEF CableInv
<1>6. QED
  BY <1>3, <1>4, <1>5

LEMMA CableInvariant == Spec => []CableInv
<1>1. ASSUME FlagsInv, CableInv, Next PROVE CableInv'
  <2>0. /\ "link" \in Tasks /\ "default" \in Tasks /\ Setters = {"default", "link"}
        /\ DataTypes /\ WantsInv /\ DefaultInv /\ LinkInv
    BY <1>1, Constants DEF Tasks, Loggers, Setters, FlagsInv
  <2>1. ASSUME NEW t \in Setters, Scheduled(t), Out(t),
               FlagLoad(t) \/ FlagStore(t) \/ FlagsSet(t)
        PROVE  CableInv'
    <3>1. CASE t = "default"
      BY <1>1, <2>0, <2>1, <3>1, DefaultSets
    <3>2. CASE t = "link"
      <4>1. pc["default"] # "store"
        <5>1. pc["default"] = "store" => at["default"] = "out"
          BY <2>0 DEF DefaultInv
        <5>2. QED
          BY <2>0, <2>1, <3>2, <5>1, DefaultReady, LinkNotUrgent DEF Blocked
      <4>2. pc'["default"] = pc["default"]
        BY <2>0, <2>1, <3>2 DEF FlagLoad, FlagStore, FlagsSet, Goto, DataTypes
      <4>3. QED
        BY <1>1, <2>0, <2>1, <3>2, <4>1, <4>2, LinkSets
    <3>3. QED
      BY <2>0, <3>1, <3>2
  <2>2. QED
    BY <1>1, <2>0, <2>1, CableCases, CableKept, LinkFollows, DefaultFollows
<1>2. ASSUME CableInv, UNCHANGED vars PROVE CableInv'
  <2>1. UNCHANGED <<pc, phy, excused, seen, mac, flags, todo, copy, linkNow, last, led>>
    BY <1>2 DEF vars, linkVars, network, thread, poll, setting
  <2>2. QED
    BY <1>2, <2>1, CableKept
<1>3. FlagsInv /\ CableInv /\ [Next]_vars => CableInv'
  BY <1>1, <1>2
<1>4. QED
  BY <1>3, CableStart, FlagsInvariant, PTL DEF Spec

\* The link thread waits and has seen what the PHY would tell now; the default
\* task waits and has seen the link as it is.
Settled == /\ pc["link"] = "delay" /\ seen = phy
           /\ pc["default"] = "delay" /\ last = flags["link"]

\* Once both tasks have seen the cable as it is, the interface is as it should
\* be, whatever the two have stored over each other's changes, and the LED is
\* dark over a link that is up.  As in NetworkFollowsCable, the MAC may have a
\* wrong speed where excused says so.
SettledFollows == Settled => Follows /\ (phy \in Speeds => ~led)

\* The safety core of NetworkFollowsCable and LedShowsCable, for any speeds and
\* any changes of the cable.
THEOREM SettledNetworkFollows == Spec => []SettledFollows
<1>1. FlagsInv /\ CableInv => SettledFollows
  <2> SUFFICES ASSUME DataTypes, CableInv, Settled
               PROVE  Follows /\ (phy \in Speeds => ~led)
    BY DEF FlagsInv, SettledFollows
  <2>1. ~Setting /\ ~Correcting
    BY DEF Settled, Setting, Correcting
  <2>2. phy = "down" => ~flags["link"]
    BY <2>1 DEF Settled, CableInv, SeenInv
  <2>3. phy \in Speeds => /\ mac # "stopped" /\ flags["link"] /\ seen # "down"
                          /\ mac = phy \/ excused
    BY <2>1, Constants DEF Settled, CableInv, SeenInv
  <2>4. phy \in Speeds => flags["up"] /\ ~led
    BY <2>1, <2>3 DEF Settled, CableInv, UpInv, PollInv, Believes
  <2>5. QED
    BY <2>2, <2>3, <2>4, Constants DEF Follows
<1>2. QED
  BY <1>1, FlagsInvariant, CableInvariant, PTL
-----------------------------------------------------------------------------
(* A message that is logged is sent *)

\* The steps of a task inside app_printf, or _write, before it is out again.
LogLeft(t) == CASE at[t] = "create" -> 6
                [] at[t] = "take"   -> 5
                [] at[t] = "lock"   -> 4
                [] at[t] = "test"   -> 3
                [] at[t] = "send"   -> 2
                [] at[t] = "give"   -> 1
                [] OTHER            -> 0

\* A task never logs again what it has begun to log, and begins nothing else.
LogsAdvance ==
    [][\A t \in Loggers :
          at[t] # "out" /\ at'[t] # at[t] => LogLeft(t)' < LogLeft(t)]_vars

\* A task that waits for the mutex waits for one other task, which is about to
\* give that mutex and waits for nothing; the scheduler gives it the processor
\* at once if the task that waits is one of those of the higher priority.
HolderRuns ==
    MutexMade => \A t \in Loggers : Blocked(t) =>
        \E u \in Loggers \ {t} :
            /\ wants[t] = mutex /\ held[mutex] = u
            /\ LogLeft(u) \in 1 .. 3 /\ Ready(u)
            /\ Priority(t) = 3 => Scheduled(u)

LEMMA LogLeftValues ==
    ASSUME NEW t
    PROVE  /\ at[t] = "create" => LogLeft(t) = 6
           /\ at[t] = "take" => LogLeft(t) = 5
           /\ at[t] = "lock" => LogLeft(t) = 4
           /\ at[t] = "test" => LogLeft(t) = 3
           /\ at[t] = "send" => LogLeft(t) = 2
           /\ at[t] = "give" => LogLeft(t) = 1
           /\ at'[t] = "take" => LogLeft(t)' = 5
           /\ at'[t] = "lock" => LogLeft(t)' = 4
           /\ at'[t] = "test" => LogLeft(t)' = 3
           /\ at'[t] = "send" => LogLeft(t)' = 2
           /\ at'[t] = "give" => LogLeft(t)' = 1
           /\ at'[t] = "out" => LogLeft(t)' = 0
  BY DEF LogLeft

\* A step inside the two functions leads on, and one of another task or out of
\* them leaves the place of a task.
LEMMA LogStepAdvances ==
    ASSUME DataTypes, NEW t \in Loggers, LogStep(t)
    PROVE  LogLeft(t)' < LogLeft(t)
<1>1. at = [u \in Loggers |-> at[u]]
  BY DEF DataTypes, LogTypeOK
<1>2. \/ at[t] = "create" /\ at'[t] = "take"
      \/ at[t] = "take" /\ at'[t] = "lock"
      \/ at[t] = "lock" /\ at'[t] = "test"
      \/ at[t] = "test" /\ at'[t] \in {"send", "give", "out"}
      \/ at[t] = "send" /\ at'[t] \in {"give", "out"}
      \/ at[t] = "give" /\ at'[t] = "out"
  BY <1>1 DEF LogStep, Create, Take, Lock, Test, Send, Give, Transmitted, To
<1>3. QED
  BY <1>2, LogLeftValues

LEMMA BeginsOut ==
    ASSUME DataTypes, NEW t \in Loggers, Out(t), Log(t) \/ Write(t),
           NEW u \in Loggers, at[u] # "out"
    PROVE  at'[u] = at[u]
<1>1. u # t /\ at = [v \in Loggers |-> at[v]]
  BY DEF Out, DataTypes, LogTypeOK
<1>2. \E place : at' = [at EXCEPT ![t] = place]
  BY DEF Log, Write, To
<1>3. QED
  BY <1>1, <1>2

LEMMA LogsStep ==
    ASSUME DataTypes, Next, NEW u \in Loggers, at[u] # "out", at'[u] # at[u]
    PROVE  LogLeft(u)' < LogLeft(u)
<1>0. {"default", "tcpip", "dispatcher", "worker"} = Loggers
  BY DEF Loggers
<1>1. CASE UNCHANGED logVars
  BY <1>1 DEF logVars
<1>2. ASSUME NEW t \in Loggers, LogStep(t) PROVE LogLeft(u)' < LogLeft(u)
  BY <1>2, LogMoves, LogStepAdvances
<1>3. ~ \E t \in Loggers : Out(t) /\ (Log(t) \/ Write(t))
  BY BeginsOut
<1>4. CASE PacketArrives \/ QueueTimesOut \/ ReceivesTimeOut \/ PhyChanges
             \/ \E t \in Setters : DelayEnds(t)
  BY <1>1, <1>4 DEF PacketArrives, QueueTimesOut, ReceivesTimeOut, PhyChanges, DelayEnds
<1>5. CASE Out("default") /\ (NetInit \/ BootPrint \/ Poll \/ Changed \/ Blink)
  BY <1>0, <1>1, <1>3, <1>5 DEF NetInit, BootPrint, Poll, Changed, Blink
<1>6. CASE ReadPhy \/ LinkSame \/ LinkDown \/ LinkUp
  BY <1>1, <1>6 DEF ReadPhy, LinkSame, LinkDown, LinkUp
<1>7. CASE \E t \in Setters : FlagLoad(t) \/ FlagStore(t) \/ FlagsSet(t)
  BY <1>1, <1>7 DEF FlagLoad, FlagStore, FlagsSet
<1>8. CASE Out("tcpip") /\ TcpIpQueue
  BY <1>1, <1>8 DEF TcpIpQueue
<1>9. CASE Out("dispatcher") /\ (DispatcherReceive \/ Dispatch)
  BY <1>0, <1>1, <1>3, <1>9 DEF DispatcherReceive, Dispatch
<1>10. CASE Out("worker") /\ Work
  BY <1>0, <1>1, <1>3, <1>10 DEF Work
<1>11. CASE \E t \in Loggers : Out(t) /\ LogFailure(t)
  BY <1>3, <1>11 DEF LogFailure
<1>12. QED
  BY <1>2, <1>4, <1>5, <1>6, <1>7, <1>8, <1>9, <1>10, <1>11, StepCases

\* The task that others wait for runs.
LEMMA HolderSuffices == FlagsInv /\ WholeInv => HolderRuns
<1> SUFFICES ASSUME FlagsInv, WholeInv, MutexMade, NEW t \in Loggers, Blocked(t)
             PROVE  \E u \in Loggers \ {t} :
                       /\ wants[t] = mutex /\ held[mutex] = u
                       /\ LogLeft(u) \in 1 .. 3 /\ Ready(u)
                       /\ Priority(t) = 3 => Scheduled(u)
  BY DEF HolderRuns
<1>1. DataTypes /\ OwnerInv
  BY DEF FlagsInv, WholeInv
<1>2. at[t] = "lock" /\ held[wants[t]] # NONE
  BY DEF Blocked
<1>3. mutex # NONE
  <2>1. CASE mutex = NONE
    <3>1. t \in raw
      BY <1>1, <1>2, <2>1 DEF OwnerInv
    <3>2. QED
      BY <1>1, <1>2, <3>1 DEF OwnerInv
  <2>2. QED
    BY <2>1
<1>4. wants[t] = mutex /\ mutex \in Loggers
  BY <1>1, <1>2, <1>3 DEF OwnerInv, DataTypes, LogTypeOK
<1>5. PICK u \in Loggers : held[mutex] = u
  BY <1>1, <1>2, <1>4 DEF DataTypes, LogTypeOK
<1>6. at[u] \in Busy
  BY <1>1, <1>3, <1>5 DEF OwnerInv
<1>7. u # t
  BY <1>2, <1>6 DEF Busy
<1>8. LogLeft(u) \in 1 .. 3
  BY <1>6, LogLeftValues DEF Busy
<1>9. Ready(u)
  BY <1>6 DEF Ready, Waits, Out, Blocked, Busy
<1>10. Priority(t) = 3 => Scheduled(u)
  BY <1>4, <1>5, <1>9 DEF Scheduled, Urgent, Inherited
<1>11. QED
  BY <1>4, <1>5, <1>7, <1>8, <1>9, <1>10

\* A task that logs goes on to the end of the function, and when it has to wait
\* for the mutex the task it waits for can run: the safety core of LogEnds, with
\* any packets, commands, cable changes and silences, and, as there, but for two
\* tasks that log first at once (MutexMade).
THEOREM LogsGoOn == Spec => LogsAdvance /\ []HolderRuns
<1>1. DataTypes /\ [Next]_vars
        => [\A t \in Loggers :
              at[t] # "out" /\ at'[t] # at[t] => LogLeft(t)' < LogLeft(t)]_vars
  BY LogsStep
<1>2. FlagsInv => DataTypes
  BY DEF FlagsInv
<1>3. QED
  BY <1>1, <1>2, HolderSuffices, FlagsInvariant, WholeInvariant, PTL DEF Spec, LogsAdvance
=============================================================================
