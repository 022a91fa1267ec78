------------------------------ MODULE Logging ------------------------------
(***************************************************************************)
(* io_tools.c: app_printf with the mutex it creates on first use, _write   *)
(* behind printf without it, and HAL_UART_Transmit, which refuses a caller *)
(* while another one transmits.  A task is inside one of the two functions *)
(* or it is out; the programs of the tasks are LinkMonitor's.  (The one    *)
(* interrupt that logs is in LoopbackTransfer.)                            *)
(***************************************************************************)
EXTENDS Integers, FiniteSets

\* The tasks that log: the default task, the TCP/IP thread, the dispatcher, and
\* one of the tasks behind it, which are the tests and the response sender.
Loggers == {"default", "tcpip", "dispatcher", "worker"}

NONE == "none"

VARIABLES at,         \* where a task is in the function, "out" when it is not
          raw,        \* the tasks inside _write
          mutex,      \* printf_mutex; a mutex has the name of its creator
          held,       \* the holder of each mutex
          wants,      \* the mutex that a task is taking
          uart,       \* gState of huart3
          refused,    \* history: a message was refused with HAL_BUSY
          stuck       \* an assertion of the kernel has failed

logVars == <<at, raw, mutex, held, wants, uart, refused, stuck>>

LogInit == /\ at = [t \in Loggers |-> "out"]
           /\ raw = {}
           /\ mutex = NONE
           /\ held = [m \in Loggers |-> NONE]
           /\ wants = [t \in Loggers |-> NONE]
           /\ uart = "READY"
           /\ refused = FALSE /\ stuck = FALSE

To(t, place) == at' = [at EXCEPT ![t] = place]

\* A call of app_printf, which tests whether there is a mutex.
Log(t) == /\ To(t, IF mutex = NONE THEN "create" ELSE "take")
          /\ UNCHANGED <<raw, mutex, held, wants, uart, refused, stuck>>

\* A call of printf.
Write(t) == /\ To(t, "test")
            /\ raw' = raw \cup {t}
            /\ UNCHANGED <<mutex, held, wants, uart, refused, stuck>>

\* Created and stored, over what another task may have stored meanwhile.  The
\* heap has room for it.
Create(t) == /\ at[t] = "create"
             /\ mutex' = t
             /\ To(t, "take")
             /\ UNCHANGED <<raw, held, wants, uart, refused, stuck>>

\* The call of xSemaphoreTake, with the mutex of this moment.
Take(t) == /\ at[t] = "take"
           /\ wants' = [wants EXCEPT ![t] = mutex]
           /\ To(t, "lock")
           /\ UNCHANGED <<raw, mutex, held, uart, refused, stuck>>

\* The task sleeps as long as another one holds the mutex.
Blocked(t) == at[t] = "lock" /\ held[wants[t]] # NONE

Lock(t) == /\ at[t] = "lock" /\ ~Blocked(t)
           /\ held' = [held EXCEPT ![wants[t]] = t]
           /\ wants' = [wants EXCEPT ![t] = NONE]
           /\ To(t, "test")
           /\ UNCHANGED <<raw, mutex, uart, refused, stuck>>

Transmitted(t) == /\ To(t, IF t \in raw THEN "out" ELSE "give")
                  /\ raw' = raw \ {t}

\* HAL_UART_Transmit; the callers do not look at its result.
Test(t) == /\ at[t] = "test"
           /\ \/ /\ uart = "READY"
                 /\ uart' = "BUSY"
                 /\ To(t, "send")
                 /\ UNCHANGED <<raw, refused>>
              \/ /\ uart = "BUSY"
                 /\ refused' = TRUE
                 /\ Transmitted(t)
                 /\ UNCHANGED uart
           /\ UNCHANGED <<mutex, held, wants, stuck>>

\* The characters go out one by one, polled by the task.
Send(t) == /\ at[t] = "send"
           /\ uart' = "READY"
           /\ Transmitted(t)
           /\ UNCHANGED <<mutex, held, wants, refused, stuck>>

\* Mutant: the mutex is kept.
GiveNothing(t) == /\ at[t] = "give"
                  /\ To(t, "out")
                  /\ UNCHANGED <<raw, mutex, held, wants, uart, refused, stuck>>

\* xSemaphoreGive of the mutex of this moment: a mutex that nobody holds stays
\* as it is, and the kernel asserts that only the holder gives.
Give(t) == /\ at[t] = "give"
           /\ To(t, "out")
           /\ stuck' = (held[mutex] \notin {t, NONE})
           /\ held' = IF stuck' THEN held ELSE [held EXCEPT ![mutex] = NONE]
           /\ UNCHANGED <<raw, mutex, wants, uart, refused>>

LogStep(t) == Create(t) \/ Take(t) \/ Lock(t) \/ Test(t) \/ Send(t) \/ Give(t)

LogTypeOK ==
    /\ at \in [Loggers -> {"out", "create", "take", "lock", "test", "send", "give"}]
    /\ raw \subseteq Loggers
    /\ mutex \in Loggers \cup {NONE}
    /\ held \in [Loggers -> Loggers \cup {NONE}]
    /\ wants \in [Loggers -> Loggers \cup {NONE}]
    /\ uart \in {"READY", "BUSY"}
    /\ refused \in BOOLEAN /\ stuck \in BOOLEAN
=============================================================================
