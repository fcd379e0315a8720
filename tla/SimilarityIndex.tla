---------------------------- MODULE SimilarityIndex ---------------------------
(***************************************************************************)
(* core/embeddings.py: FunctionSimilarityIndex, its list of functions, the *)
(* matrix it caches of them and the file it keeps them in, used by one     *)
(* process after the other.                                                *)
(*                                                                         *)
(* A function stands for its embedding: the matrix is the list of those    *)
(* that were stacked.  Scores, and so the order of a search's results, are *)
(* left out; what matters is which functions a search can find.            *)
(***************************************************************************)
EXTENDS Naturals, Sequences

CONSTANTS
  Functions,      \* functions that are indexed
  MaxFunctions    \* how many entries the list may have: a bound of the model

VARIABLES
  functions,   \* self.functions
  matrix,      \* self._matrix, NoMatrix for None
  dirty,       \* self._dirty
  saving,      \* save() has opened the file and not yet returned
  file,        \* what is at index_path
  halfBatch    \* history: the last add was a batch that raised half way

indexVars == <<functions, matrix, dirty, saving, file, halfBatch>>

NoMatrix == <<"None">>
Absent == <<"absent">>
Torn == <<"torn">>    \* open(..., "wb") has emptied it, the dump is not complete

ASSUME IndexAssumption ==
  /\ MaxFunctions \in Nat
  /\ Functions \cap {"None", "absent", "torn"} = {}

\* _load(): whatever cannot be read is an empty index.
Loaded(f) == IF f \in {Absent, Torn} THEN <<>> ELSE f

IndexInit ==
  /\ functions = <<>>
  /\ matrix = NoMatrix
  /\ dirty = FALSE
  /\ saving = FALSE
  /\ file = Absent
  /\ halfBatch = FALSE

Room(n) == Len(functions) + n <= MaxFunctions

\* Mutant of AddFunction: the cache is kept.
AddFunctionCached(f) ==
  /\ ~ saving /\ Room(1)
  /\ functions' = Append(functions, f)
  /\ dirty' = TRUE
  /\ halfBatch' = FALSE
  /\ UNCHANGED <<matrix, saving, file>>

\* An exception of the provider comes before any change.
AddFunction(f) ==
  /\ ~ saving /\ Room(1)
  /\ functions' = Append(functions, f)
  /\ dirty' = TRUE
  /\ matrix' = NoMatrix
  /\ halfBatch' = FALSE
  /\ UNCHANGED <<saving, file>>

\* All functions of the batch are appended, then the flags are set.
AddBatch(fs) ==
  /\ ~ saving /\ Room(Len(fs))
  /\ functions' = functions \o fs
  /\ dirty' = TRUE
  /\ matrix' = NoMatrix
  /\ halfBatch' = FALSE
  /\ UNCHANGED <<saving, file>>

\* An entry behind fs has no name or no address, or there are fewer embeddings
\* than texts: the exception comes before the flags.
AddBatchRaises(fs) ==
  /\ ~ saving /\ Room(Len(fs))
  /\ functions' = functions \o fs
  /\ halfBatch' = TRUE
  /\ UNCHANGED <<matrix, dirty, saving, file>>

\* search(), search_by_embedding(), find_cross_binary_matches(): the matrix is
\* made if there is none.  An empty index is not searched.
Search ==
  /\ ~ saving /\ functions # <<>>
  /\ matrix' = IF matrix = NoMatrix THEN functions ELSE matrix
  /\ UNCHANGED <<functions, dirty, saving, file, halfBatch>>

\* save() does nothing for a clean index.  It opens the file, which empties it.
SaveOpens ==
  /\ ~ saving /\ dirty
  /\ saving' = TRUE
  /\ file' = Torn
  /\ UNCHANGED <<functions, matrix, dirty, halfBatch>>

SaveDumps ==
  /\ saving
  /\ saving' = FALSE
  /\ file' = functions
  /\ dirty' = FALSE
  /\ UNCHANGED <<functions, matrix, halfBatch>>

\* Mutant of SaveRaises: the flag is cleared in any case.
SaveRaisesClean ==
  /\ saving
  /\ saving' = FALSE
  /\ dirty' = FALSE
  /\ UNCHANGED <<functions, matrix, file, halfBatch>>

\* The dump raises, on a full disk or on metadata that cannot be pickled.
SaveRaises ==
  /\ saving
  /\ saving' = FALSE
  /\ UNCHANGED <<functions, matrix, dirty, file, halfBatch>>

\* The process ends, or is killed anywhere, and another one opens the index.
Restart ==
  /\ functions' = Loaded(file)
  /\ matrix' = NoMatrix
  /\ dirty' = FALSE
  /\ saving' = FALSE
  /\ halfBatch' = FALSE
  /\ UNCHANGED file

Batches == {<<f>> : f \in Functions} \cup {<<f, g>> : f, g \in Functions}

IndexNext ==
  \/ \E f \in Functions : AddFunction(f)
  \/ \E fs \in Batches : AddBatch(fs) \/ AddBatchRaises(fs)
  \/ Search \/ SaveOpens \/ SaveDumps \/ SaveRaises \/ Restart

IndexSpec == IndexInit /\ [][IndexNext]_indexVars

------------------------------------------------------------------------------

(***************************************************************************)
(* A search finds every function that was added, unless the last add was a *)
(* batch that raised half way: then it finds a beginning of the list.  In  *)
(* no case does the matrix have a row that the list has no function for,   *)
(* so that self.functions[idx] cannot miss or be another function.         *)
(***************************************************************************)
SearchSeesAll ==
  matrix # NoMatrix =>
    /\ Len(matrix) <= Len(functions)
    /\ \A k \in 1 .. Len(matrix) : matrix[k] = functions[k]
    /\ ~ halfBatch => Len(matrix) = Len(functions)

\* An index that save() would skip can be loaded again as it is: after every
\* sequence of adds, saves that fail, crashes while saving and restarts, unless
\* the last add was a batch that raised half way.
CleanIsOnDisk == ~ dirty /\ ~ halfBatch => Loaded(file) = functions

==============================================================================
