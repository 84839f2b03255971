------------------------ MODULE MCPersistenceWorker ------------------------
(* Instances of PersistenceWorker for TLC. *)
EXTENDS PersistenceWorker

\* KIS stamps ticks to the second: two trades of a symbol share their key.
MCKeyOf == [n \in 1..MaxPublished |-> (n + 1) \div 2]

\* Every tick has a key of its own.
MCOwnKeys == [n \in 1..MaxPublished |-> n]
=============================================================================
