------------------------------- MODULE KeyMaps -------------------------------
(***************************************************************************)
(* What hashmap_t promises the owner of several maps: each is a partial    *)
(* function from keys to values.  Growing changes nothing, moving a map    *)
(* into another adds its values there, element by element, and a map that  *)
(* was moved from is empty until it is assigned or constructed again.      *)
(***************************************************************************)
EXTENDS PartialFunctions

CONSTANTS Tables, Keys, Values, DefaultValue

VARIABLES maps, reply

vars == <<maps, reply>>

EmptyMap == << >>
NoReply  == [op |-> "none"]

Reply(op, t, key) ==
    [op |-> op, table |-> t, key |-> key, already_exist |-> key \in DOMAIN maps[t]]

Init ==
    /\ maps = [t \in Tables |-> EmptyMap]
    /\ reply = NoReply

insert(t, key, val) ==
    /\ maps' = [maps EXCEPT ![t] = Put(@, key, val)]
    /\ reply' = Reply("insert", t, key)

access(t, key) ==
    /\ maps' = [maps EXCEPT ![t] = IF key \in DOMAIN @ THEN @ ELSE Put(@, key, DefaultValue)]
    /\ reply' = Reply("access", t, key)

(* The user writes through the reference that access returned.             *)
Assign(val) ==
    /\ reply.op = "access"
    /\ maps' = [maps EXCEPT ![reply.table][reply.key] = val]
    /\ UNCHANGED reply

MoveOne(from, to, key) ==
    /\ key \in DOMAIN maps[from]
    /\ maps' = [maps EXCEPT
                  ![to]   = Put(@, key, maps[from][key]),
                  ![from] = [k \in DOMAIN @ \ {key} |-> @[k]]]
    /\ reply' = NoReply

(* Move assignment; a table that is destroyed and constructed again.       *)
Replace(to, map, from) ==
    /\ maps' = [[maps EXCEPT ![from] = EmptyMap] EXCEPT ![to] = map]
    /\ reply' = NoReply

Swap(a, b) ==
    /\ maps' = [maps EXCEPT ![a] = maps[b], ![b] = maps[a]]
    /\ reply' = NoReply

Copy(from, to) ==
    /\ maps' = [maps EXCEPT ![to] = maps[from]]
    /\ reply' = NoReply

Next ==
    \/ \E t \in Tables, key \in Keys :
          access(t, key) \/ \E val \in Values : insert(t, key, val)
    \/ \E val \in Values : Assign(val)
    \/ \E from, to \in Tables :
          \/ from # to /\ \E key \in Keys : MoveOne(from, to, key)
          \/ Replace(to, maps[from], from)
          \/ Replace(to, EmptyMap, to)
          \/ Swap(from, to) \/ Copy(from, to)

Spec == Init /\ [][Next]_vars
==============================================================================
