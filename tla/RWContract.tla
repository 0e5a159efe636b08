------------------------------ MODULE RWContract ------------------------------
(***************************************************************************)
(* What aiolab.sync.ReadWriteLock promises: readers together or one writer *)
(* alone, and no reader let in while a writer is asking.  There is no      *)
(* condition variable and no event loop here.                              *)
(***************************************************************************)
CONSTANT Clients

VARIABLES
  reading,   \* clients inside as readers
  writing,   \* clients inside as writers
  asking     \* clients that have asked to write and are not inside

contractVars == <<reading, writing, asking>>

Init == reading = {} /\ writing = {} /\ asking = {}

Outside(c) == c \notin reading \cup writing \cup asking

EnterRead(c) ==
  /\ Outside(c)
  /\ writing = {} /\ asking = {}
  /\ reading' = reading \cup {c}
  /\ UNCHANGED <<writing, asking>>

Ask(c) ==
  /\ Outside(c)
  /\ asking' = asking \cup {c}
  /\ UNCHANGED <<reading, writing>>

\* A writer that finds nobody inside enters at once.
EnterWrite(c) ==
  /\ c \notin reading \cup writing
  /\ reading = {} /\ writing = {}
  /\ writing' = {c}
  /\ asking' = asking \ {c}
  /\ UNCHANGED reading

GiveUp(c) ==
  /\ c \in asking
  /\ asking' = asking \ {c}
  /\ UNCHANGED <<reading, writing>>

Leave(c) ==
  /\ c \in reading \cup writing
  /\ reading' = reading \ {c}
  /\ writing' = writing \ {c}
  /\ UNCHANGED asking

Next ==
  \E c \in Clients :
    EnterRead(c) \/ Ask(c) \/ EnterWrite(c) \/ GiveUp(c) \/ Leave(c)

Spec == Init /\ [][Next]_contractVars
=============================================================================
