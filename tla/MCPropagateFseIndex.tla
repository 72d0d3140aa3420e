------------------------ MODULE MCPropagateFseIndex ------------------------
(***************************************************************************)
(* Model of PropagateFseIndex: every vector over two tables, Repeat and    *)
(* Unused.  (The parser gives a table or Repeat to every stream; the kernel *)
(* and the sequential pass handle Unused as well, and are compared on it.) *)
(***************************************************************************)
EXTENDS PropagateFseIndex

MCInputs == [Streams -> Indices]

============================================================================
