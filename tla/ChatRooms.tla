------------------------------ MODULE ChatRooms -----------------------------
(***************************************************************************)
(* What the channels promise, without commands, records, nicknames or      *)
(* answers: who may move whom in and out of a room, and who may change it. *)
(***************************************************************************)
CONSTANTS People, Rooms

VARIABLES
    members,    \* room -> the people in it
    operators,  \* room -> those of them who rule it
    guests,     \* room -> the people invited
    closed      \* the rooms only guests may enter

rooms == <<members, operators, guests, closed>>

\* Nobody is in any room.
Vacant ==
    /\ members = [r \in Rooms |-> {}]
    /\ operators = [r \in Rooms |-> {}]
    /\ guests = [r \in Rooms |-> {}]
    /\ closed = {}

\* Into an open room, or with an invitation, which is used up by it.  Who
\* enters an empty room may get to rule it, nobody else does by entering.
Enter(p, r) ==
    /\ p \notin members[r]
    /\ r \in closed => p \in guests[r]
    /\ members' = [members EXCEPT ![r] = @ \cup {p}]
    /\ guests' = [guests EXCEPT ![r] = @ \ {p}]
    /\ \/ UNCHANGED operators
       \/ members[r] = {} /\ operators' = [operators EXCEPT ![r] = {p}]
    /\ UNCHANGED closed

\* p leaves the rooms of left, with its rank; the last to leave a room takes
\* its settings along.
Out(p, left) ==
    LET emptied == {r \in left : members[r] = {p}}
    IN  /\ members' = [r \in Rooms |-> IF r \in left THEN members[r] \ {p} ELSE members[r]]
        /\ operators' = [r \in Rooms |-> IF r \in left THEN operators[r] \ {p} ELSE operators[r]]
        /\ guests' = [r \in Rooms |-> IF r \in emptied THEN {} ELSE guests[r]]
        /\ closed' = closed \ emptied

Leave(p, r) == p \in members[r] /\ Out(p, {r})

\* A person who is gone is in no room; its invitations stay.
Disappear(p) == Out(p, {r \in Rooms : p \in members[r]})

Kick(p, q, r) == p \in operators[r] /\ q \in members[r] /\ Out(q, {r})

Invite(p, q, r) ==
    /\ p \in operators[r]
    /\ q \notin members[r]
    /\ guests' = [guests EXCEPT ![r] = @ \cup {q}]
    /\ UNCHANGED <<members, operators, closed>>

\* An operator opens or closes the room and gives or takes a member's rank.
Manage(p, r) ==
    /\ p \in operators[r]
    /\ \/ UNCHANGED operators
       \/ \E q \in members[r] :
            \E rank \in {operators[r] \cup {q}, operators[r] \ {q}} :
                operators' = [operators EXCEPT ![r] = rank]
    /\ closed' \in {closed, closed \cup {r}, closed \ {r}}
    /\ UNCHANGED <<members, guests>>

Act(p) ==
    \/ Disappear(p)
    \/ \E r \in Rooms :
         \/ Enter(p, r) \/ Leave(p, r) \/ Manage(p, r)
         \/ \E q \in People : Kick(p, q, r) \/ Invite(p, q, r)

Contract == Vacant /\ [][\E p \in People : Act(p)]_rooms

=============================================================================
