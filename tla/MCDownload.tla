----------------------------- MODULE MCDownload -----------------------------
(* The answers of trackers that the runs of Download try: every form and   *)
(* every interval with one list of peers, and every pair of lists.         *)
EXTENDS Download

(* Ports whose two bytes differ, and the least and the greatest bytes.     *)
V4 == {[host |-> <<10, 0, 0, 1>>, port |-> 6881],
       [host |-> <<255, 0, 255, 2>>, port |-> 1]}
V6 == {[host |-> <<8193, 3512, 0, 0, 0, 0, 255, 65535>>, port |-> 51413]}

Lists(S) ==
  {[as |-> as, of |-> of, damaged |-> damaged] :
     as \in {"compact", "list"}, damaged \in BOOLEAN,
     of \in {<<>>} \cup {<<p>> : p \in S} \cup {<<p, q>> : p, q \in S}}

Absent == [as |-> "absent", of |-> <<>>, damaged |-> FALSE]

Times == {{}, {0}, {1800}}

MCAnswers ==
  [form : {"garbage", "notDict", "dict"}, failure : Message, warning : Message,
   interval : Times, minInterval : Times, peers : {Absent}, peers6 : {Absent}]
  \cup
  [form : {"dict"}, failure : {"absent"}, warning : {"absent"},
   interval : {{1800}}, minInterval : {{}},
   peers : Lists(V4) \cup {Absent}, peers6 : Lists(V6) \cup {Absent}]
=============================================================================
