--------------------------- MODULE MCTypeRegistry ----------------------------
(* Instances of TypeRegistry for TLC: v0, u8 and u32 of the primitive types.  *)
EXTENDS TypeRegistry, TLC

MCPrimitives == <<[name |-> "v0", size |-> 0], [name |-> "u8", size |-> 1],
                  [name |-> "u32", size |-> 4]>>
=============================================================================
