------------------------------ MODULE CapTable -------------------------------
(***************************************************************************)
(* The startup capability table (substrate/cap_table.rs): a spawner pushes *)
(* role-to-slot entries into a builder and writes them into a page, the    *)
(* child finds the page through its auxiliary vector and installs the      *)
(* slots of the system roles in its weak symbols.                          *)
(***************************************************************************)
EXTENDS Integers, Sequences, FiniteSets

CONSTANTS SystemRoles,  \* roles with a symbol in system_role_target
          OtherRoles,   \* raw authority roles and service-local roles
          Slots,        \* slot numbers pushed, 0 for "not populated"
          MAX_CAP_TABLE_ENTRIES,
          SlotMax,      \* u32::MAX
          MaxPushes     \* bound: calls of push

Roles == SystemRoles \cup OtherRoles
CapTableAssumption ==
    /\ SystemRoles \cap OtherRoles = {} /\ Slots \subseteq Nat
    /\ {MAX_CAP_TABLE_ENTRIES, SlotMax, MaxPushes} \subseteq Nat

VARIABLES entries,    \* the builder's
          pushed,     \* history: every push with its answer
          page,       \* what the child finds at AT_TRONA_CAP_TABLE
          symbol,     \* __trona_cap_* of each system role
          phase       \* "build", "written", "installed"

capVars == <<entries, pushed, page, symbol, phase>>

Blank == [valid |-> FALSE, entries |-> << >>]

Init ==
    /\ entries = << >> /\ pushed = << >> /\ page = Blank
    /\ symbol = [r \in SystemRoles |-> 0] /\ phase = "build"

PushAnswer(slot) ==
    IF slot = 0 THEN "skipped"
    ELSE IF slot > SlotMax THEN "SlotOutOfRange"
    ELSE IF Len(entries) >= MAX_CAP_TABLE_ENTRIES THEN "Overflow" ELSE "stored"

push(role, slot) ==
    /\ phase = "build" /\ Len(pushed) < MaxPushes
    /\ entries' = IF PushAnswer(slot) = "stored" THEN Append(entries, [role |-> role, slot |-> slot % (SlotMax + 1)])
                  ELSE entries
    /\ pushed' = Append(pushed, [role |-> role, slot |-> slot, answer |-> PushAnswer(slot)])
    /\ UNCHANGED <<page, symbol, phase>>

(* The page is written and handed over, or the child gets none, or one of *)
(* another version.                                                       *)
write_at ==
    /\ phase = "build" /\ phase' = "written"
    /\ page' \in {Blank, [valid |-> TRUE, entries |-> entries]}
    /\ UNCHANGED <<entries, pushed, symbol>>

(* Mistaken form: the search starts at the second entry. *)
lookup_from_second(role) ==
    LET of == {i \in DOMAIN page.entries : i > 1 /\ page.entries[i].role = role} IN
    IF page.valid /\ of # {} THEN page.entries[CHOOSE i \in of : \A j \in of : i <= j].slot ELSE 0
(* The first entry of the role. *)
lookup(role) ==
    LET of == {i \in DOMAIN page.entries : page.entries[i].role = role} IN
    IF page.valid /\ of # {} THEN page.entries[CHOOSE i \in of : \A j \in of : i <= j].slot ELSE 0

(* What the sweep of install_well_known_caps leaves in the symbol of a role: *)
(* each entry of the role stores its slot, so that the last one stays.      *)
Installed(role) ==
    LET of == {i \in DOMAIN page.entries : page.entries[i].role = role} IN
    IF page.valid /\ of # {} THEN page.entries[CHOOSE i \in of : \A j \in of : j <= i].slot
    ELSE symbol[role]

install_well_known_caps ==
    /\ phase = "written" /\ phase' = "installed"
    /\ symbol' = [r \in SystemRoles |-> Installed(r)]
    /\ UNCHANGED <<entries, pushed, page>>

Next ==
    \/ \E r \in Roles, s \in Slots : push(r, s)
    \/ write_at
    \/ install_well_known_caps

Spec == Init /\ [][Next]_capVars

-----------------------------------------------------------------------------
Stored == {i \in DOMAIN pushed : pushed[i].answer = "stored"}
Once(role) == Cardinality({i \in Stored : pushed[i].role = role}) <= 1

(* Whatever the order of the pushes, unpopulated slots and failed pushes   *)
(* between them: a child that finds the table has, for every system role   *)
(* pushed once, the pushed slot in the role's symbol and 0 for the others; *)
(* one that finds none has 0 everywhere.                                   *)
RolesArrive ==
    phase = "installed" => \A r \in SystemRoles : Once(r) =>
        IF page.valid /\ \E i \in Stored : pushed[i].role = r
        THEN \E i \in Stored : pushed[i].role = r /\ symbol[r] = pushed[i].slot
        ELSE symbol[r] = 0

(* The two readers of the table agree: the symbol installed for a system    *)
(* role is the slot lookup returns, unless the spawner pushed the role      *)
(* twice (lookup takes the first entry, installation keeps the last).       *)
ReadersAgree == phase = "installed" => \A r \in SystemRoles : Once(r) => symbol[r] = lookup(r)
=============================================================================
