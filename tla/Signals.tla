------------------------------ MODULE Signals ------------------------------
(***************************************************************************)
(* The signals of the widgets (core/sigslot.h).  Of the signals an element *)
(* has, only EffectFinished of a tooltip, which it handles itself, and     *)
(* Held and Clicked of the three buttons of the keyboard have slots; each  *)
(* of these elements has one, and goes by the element's name.  StateChanged*)
(* has none, and goes off at every change of a state, on both threads.     *)
(*                                                                         *)
(* m_mutex is one variable of each translation unit, and which unit's lock *)
(* and unlock the linker keeps decides whether they share one.  It does    *)
(* not nest: a second lock by its owner fails, and its unlock releases it. *)
(***************************************************************************)
EXTENDS Naturals, Sequences, FiniteSets, SequencesExt

CONSTANTS
  Elements,   \* those with a slot or a connected signal
  Widgets,    \* what is created as a whole: its elements in the order they are deleted
  Slot,       \* of the elements with a connected signal: the element that handles it
  MaxShown    \* bound: widgets created

VARIABLES
  m_mutex,            \* "none", or the thread that holds it
  shared,             \* lock_block works on one mutex
  m_connected_slots,  \* of each element's signal, the elements it calls
  m_senders,          \* of each element, the signals that call it
  alive, signals,     \* elements not deleted; those whose signal is not deleted
  shown,              \* widgets in the window
  todo,               \* what each thread has still to do of an operation
  created

vars == <<m_mutex, shared, m_connected_slots, m_senders, alive, signals, shown, todo, created>>

Threads == {"gui", "menu"}
Parts(w) == {w[i] : i \in DOMAIN w}

Do(op, signal, slot) == [op |-> op, signal |-> signal, slot |-> slot]
lock_block(body) == <<Do("lock", "", "")>> \o body \o <<Do("unlock", "", "")>>

-----------------------------------------------------------------------------
(* The operations, as the steps they take.  A list is walked as it is when *)
(* the walk begins.                                                        *)

signal_connect(e, slot) == lock_block(<<Do("insert sender", e, slot)>>)
connect(e) ==
  lock_block(<<Do("push", e, Slot[e])>> \o signal_connect(e, Slot[e]))

signal_disconnect(e, slot) == lock_block(<<Do("erase sender", e, slot)>>)
\* Mutant: the other end is not told.
disconnect_all_slots_Untold(e) == lock_block(<<Do("clear slots", e, "")>>)

disconnect_all_slots(e) ==
  lock_block(FlattenSeq([i \in DOMAIN m_connected_slots[e] |-> signal_disconnect(e, m_connected_slots[e][i])])
             \o <<Do("clear slots", e, "")>>)

slot_disconnect(e, slot) == lock_block(<<Do("erase slot", e, slot)>>)
disconnect_all_senders(e) ==
  lock_block(FlattenSeq([i \in 1..Cardinality(m_senders[e]) |-> slot_disconnect(SetToSeq(m_senders[e])[i], e)])
             \o <<Do("clear senders", "", e)>>)

emit(e) ==
  lock_block([i \in DOMAIN m_connected_slots[e] |-> Do("call", e, m_connected_slots[e][i])])

\* The slot of a tooltip resets its parent, which goes off without slots.
StateChanged == lock_block(<<>>)

-----------------------------------------------------------------------------
Init ==
  /\ m_mutex = "none" /\ shared \in BOOLEAN
  /\ m_connected_slots = [e \in Elements |-> <<>>] /\ m_senders = [e \in Elements |-> {}]
  /\ alive = {} /\ signals = {} /\ shown = {} /\ created = 0
  /\ todo = [t \in Threads |-> <<>>]

Idle(t) == todo[t] = <<>>
Begin(t, steps) == todo' = [todo EXCEPT ![t] = steps]

\* The menu thread, or the one that shows a page, creates and deletes widgets;
\* it appends and removes them under HaltGui, between two passes of the other.
New(w) ==
  /\ Idle("menu") /\ created < MaxShown /\ Parts(w) \cap alive = {}
  /\ alive' = alive \cup Parts(w) /\ signals' = signals \cup Parts(w) /\ created' = created + 1
  /\ LET wired == SelectSeq(w, LAMBDA e : e \in DOMAIN Slot)
     IN Begin("menu", FlattenSeq([i \in DOMAIN wired |-> connect(wired[i])]))
  /\ UNCHANGED <<m_mutex, shared, m_connected_slots, m_senders, shown>>

Show(w) ==
  /\ Idle("menu") /\ Idle("gui") /\ Parts(w) \subseteq alive /\ w \notin shown
  /\ shown' = shown \cup {w}
  /\ UNCHANGED <<m_mutex, shared, m_connected_slots, m_senders, alive, signals, todo, created>>

Hide(w) ==
  /\ Idle("menu") /\ Idle("gui") /\ w \in shown
  /\ shown' = shown \ {w}
  /\ UNCHANGED <<m_mutex, shared, m_connected_slots, m_senders, alive, signals, todo, created>>

\* An element's signals are its members, and go before its base has_slots.
Delete(w) ==
  /\ Idle("menu") /\ Parts(w) \subseteq alive /\ w \notin shown
  /\ Begin("menu", FlattenSeq([i \in DOMAIN w |->
       <<Do("end signal", w[i], ""), Do("end slots", "", w[i])>>]))
  /\ UNCHANGED <<m_mutex, shared, m_connected_slots, m_senders, alive, signals, shown, created>>

SetState(w) ==
  /\ Idle("menu") /\ Parts(w) \subseteq alive
  /\ Begin("menu", StateChanged)
  /\ UNCHANGED <<m_mutex, shared, m_connected_slots, m_senders, alive, signals, shown, created>>

\* GuiElement::Update and UpdateEffects, of what is in the window.
Update(e) ==
  /\ Idle("gui") /\ \E w \in shown : e \in Parts(w)
  /\ Begin("gui", emit(e))
  /\ UNCHANGED <<m_mutex, shared, m_connected_slots, m_senders, alive, signals, shown, created>>

-----------------------------------------------------------------------------
(* One step of an operation.                                               *)

Next1(t) == Head(todo[t])
Rest(t) == Tail(todo[t])

Lock(t) ==
  /\ ~Idle(t) /\ Next1(t).op = "lock"
  /\ shared => m_mutex \in {"none", t}
  /\ m_mutex' = IF shared THEN t ELSE m_mutex
  /\ Begin(t, Rest(t))
  /\ UNCHANGED <<shared, m_connected_slots, m_senders, alive, signals, shown, created>>

Unlock(t) ==
  /\ ~Idle(t) /\ Next1(t).op = "unlock"
  /\ m_mutex' = IF m_mutex = t THEN "none" ELSE m_mutex
  /\ Begin(t, Rest(t))
  /\ UNCHANGED <<shared, m_connected_slots, m_senders, alive, signals, shown, created>>

Connect(t) ==
  /\ ~Idle(t) /\ Next1(t).op \in {"push", "insert sender"}
  /\ LET e == Next1(t).signal  s == Next1(t).slot
     IN IF Next1(t).op = "push"
        THEN m_connected_slots' = [m_connected_slots EXCEPT ![e] = Append(@, s)] /\ UNCHANGED m_senders
        ELSE m_senders' = [m_senders EXCEPT ![s] = @ \cup {e}] /\ UNCHANGED m_connected_slots
  /\ Begin(t, Rest(t))
  /\ UNCHANGED <<m_mutex, shared, alive, signals, shown, created>>

Disconnect(t) ==
  /\ ~Idle(t) /\ Next1(t).op \in {"erase slot", "erase sender", "clear slots", "clear senders"}
  /\ LET e == Next1(t).signal  s == Next1(t).slot  op == Next1(t).op
     IN /\ m_connected_slots' =
             CASE op = "erase slot" -> [m_connected_slots EXCEPT ![e] = SelectSeq(@, LAMBDA d : d # s)]
               [] op = "clear slots" -> [m_connected_slots EXCEPT ![e] = <<>>]
               [] OTHER -> m_connected_slots
        /\ m_senders' =
             CASE op = "erase sender" -> [m_senders EXCEPT ![s] = @ \ {e}]
               [] op = "clear senders" -> [m_senders EXCEPT ![s] = {}]
               [] OTHER -> m_senders
  /\ Begin(t, Rest(t))
  /\ UNCHANGED <<m_mutex, shared, alive, signals, shown, created>>

\* ~signal: the signal is gone once it has left its slots.
EndSignal(t) ==
  /\ ~Idle(t) /\ Next1(t).op \in {"end signal", "gone signal"}
  /\ IF Next1(t).op = "end signal"
     THEN /\ Begin(t, disconnect_all_slots(Next1(t).signal) \o <<Do("gone signal", Next1(t).signal, "")>> \o Rest(t))
          /\ UNCHANGED signals
     ELSE signals' = signals \ {Next1(t).signal} /\ Begin(t, Rest(t))
  /\ UNCHANGED <<m_mutex, shared, m_connected_slots, m_senders, alive, shown, created>>

EndSlots(t) ==
  /\ ~Idle(t) /\ Next1(t).op \in {"end slots", "gone"}
  /\ IF Next1(t).op = "end slots"
     THEN /\ Begin(t, disconnect_all_senders(Next1(t).slot) \o <<Do("gone", "", Next1(t).slot)>> \o Rest(t))
          /\ UNCHANGED alive
     ELSE alive' = alive \ {Next1(t).slot} /\ Begin(t, Rest(t))
  /\ UNCHANGED <<m_mutex, shared, m_connected_slots, m_senders, signals, shown, created>>

Call(t) ==
  /\ ~Idle(t) /\ Next1(t).op = "call"
  /\ Begin(t, StateChanged \o Rest(t))
  /\ UNCHANGED <<m_mutex, shared, m_connected_slots, m_senders, alive, signals, shown, created>>

Step(t) ==
  \/ Lock(t) \/ Unlock(t) \/ Connect(t) \/ Disconnect(t)
  \/ EndSignal(t) \/ EndSlots(t) \/ Call(t)

Next ==
  \/ \E w \in Widgets : New(w) \/ Show(w) \/ Hide(w) \/ Delete(w) \/ SetState(w)
  \/ \E e \in Elements : Update(e)
  \/ \E t \in Threads : Step(t)

Spec == Init /\ [][Next]_vars

-----------------------------------------------------------------------------
(* Properties.                                                             *)

\* Whatever the mutex is worth, no step touches a signal, a slot or a
\* connection that is gone, and a thread that waits for the mutex waits for
\* one that can go on; between operations every connection is known on both
\* sides and every element in the window has its own
\* (sigslot.h:533-563, 734-801, 2206-2248, gui_keyboard.cpp:196-210, gui_tooltip.cpp:47).
ConnectionsLive ==
  /\ \A t \in Threads : ~Idle(t) =>
       LET do == Next1(t)
       IN /\ do.signal # "" => do.signal \in signals
          /\ do.slot # "" => do.slot \in alive
          /\ do.op = "call" => do.slot \in ToSet(m_connected_slots[do.signal])
  /\ m_mutex # "none" => ~Idle(m_mutex)
  /\ (\A t \in Threads : Idle(t)) =>
       /\ \A e, s \in Elements : s \in ToSet(m_connected_slots[e]) <=> e \in m_senders[s]
       /\ \A w \in shown : \A e \in Parts(w) :
            m_connected_slots[e] = IF e \in DOMAIN Slot THEN <<Slot[e]>> ELSE <<>>
=============================================================================
