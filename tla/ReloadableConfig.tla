-------------------------- MODULE ReloadableConfig --------------------------
(***************************************************************************)
(* ReloadableConfig of src/pymaker/reloadable_config.py: a cached JSON     *)
(* configuration and the files it is made from, a main file that may       *)
(* import another one.  Other programs edit the files between any two      *)
(* accesses of get_config.  A content is named by the number of its edit,  *)
(* which is its modification time as well.                                 *)
(***************************************************************************)
EXTENDS Integers

CONSTANTS
    MaxEdits,       \* bound: edits of each of the files
    NoConfig        \* None

ASSUME ConfigAssumption == MaxEdits \in Nat /\ NoConfig \notin Nat

VARIABLES
    main_file,      \* its edit, whether it imports, whether it can be evaluated
    import_file,    \* its edit, and whether it exists

    reader,         \* where get_config is
    stat,           \* the mtime of the main file that it has read
    content,        \* the main file that it has read
    imported,       \* the edit of the imported file it evaluated, or NoConfig

    _config,        \* the cached value: edits of the two files, or NoConfig
    _mtime,
    _imported_mtimes,   \* the mtime known of the imported file, or NoConfig

    asOf,           \* history: the edits when get_config was called
    disturbed       \* history: the import changed while the cached value was made

files == <<main_file, import_file>>
readerVars == <<reader, stat, content, imported>>
cache == <<_config, _mtime, _imported_mtimes>>
configVars == <<files, readerVars, cache, asOf, disturbed>>

Loading == reader \in {"imports", "open", "evaluate", "compare", "store", "stored"}

ConfigInit ==
    /\ main_file = [edit |-> 1, imports |-> TRUE, valid |-> TRUE]
    /\ import_file = [edit |-> 1, exists |-> TRUE]
    /\ reader = "idle" /\ stat = 0 /\ content = NoConfig /\ imported = NoConfig
    /\ _config = NoConfig /\ _mtime = NoConfig /\ _imported_mtimes = NoConfig
    /\ asOf = [main |-> 0, import |-> 0]
    /\ disturbed = FALSE

(* Someone edits a file, or removes the imported one. *)
EditMain ==
    /\ main_file.edit < MaxEdits
    /\ \E imports, valid \in BOOLEAN :
          main_file' = [edit |-> main_file.edit + 1, imports |-> imports, valid |-> valid]
    /\ UNCHANGED <<import_file, readerVars, cache, asOf, disturbed>>

EditImport ==
    /\ import_file.edit < MaxEdits
    /\ \E exists \in BOOLEAN :
          import_file' = [edit |-> import_file.edit + 1, exists |-> exists]
    /\ disturbed' = (disturbed \/ Loading)
    /\ UNCHANGED <<main_file, readerVars, cache, asOf>>

(* get_config reads the modification time of the main file. *)
GetConfig ==
    /\ reader \in {"idle", "returned", "raised"}
    /\ stat' = main_file.edit
    /\ asOf' = [main |-> main_file.edit, import |-> import_file.edit]
    /\ reader' = IF _config # NoConfig /\ _mtime = main_file.edit THEN "imports" ELSE "open"
    /\ UNCHANGED <<files, content, imported, cache, disturbed>>

(* _mtimes_changed: a file that is gone has changed. *)
MtimesChanged ==
    /\ _imported_mtimes # NoConfig
    /\ ~import_file.exists \/ import_file.edit # _imported_mtimes

(* The cached value is returned if no imported file has changed either. *)
CheckImports ==
    /\ reader = "imports"
    /\ reader' = IF MtimesChanged THEN "open" ELSE "returned"
    /\ UNCHANGED <<files, stat, content, imported, cache, asOf, disturbed>>

Open ==
    /\ reader = "open"
    /\ content' = main_file
    /\ reader' = "evaluate"
    /\ disturbed' = FALSE
    /\ UNCHANGED <<files, stat, imported, cache, asOf>>

(* _import_callback finds the imported file, if it is asked for. *)
ImportFound == content.imports => import_file.exists

(* The snippet is evaluated, which reads the imported file, and parsed.    *)
(* Neither a failure of this nor one of the next step changes the cache.   *)
Evaluate ==
    /\ reader = "evaluate"
    /\ IF content.valid /\ ImportFound
       THEN /\ imported' = IF content.imports THEN import_file.edit ELSE NoConfig
            /\ reader' = "compare"
       ELSE /\ reader' = "raised"
            /\ UNCHANGED imported
    /\ UNCHANGED <<files, stat, content, cache, asOf, disturbed>>

(* With the same main file as before, the mtimes are read for the log; a   *)
(* file that is gone raises.                                               *)
CompareForLog ==
    /\ reader = "compare"
    /\ reader' = IF /\ _config # NoConfig /\ _config.main = content.edit
                    /\ imported # NoConfig /\ ~import_file.exists
                 THEN "raised"
                 ELSE "store"
    /\ UNCHANGED <<files, stat, content, imported, cache, asOf, disturbed>>

(* A mutant: the modification time is read once more at the end. *)
LateMtime == main_file.edit

EarlyMtime == stat

(* The value and the time of the main file are stored ... *)
Store ==
    /\ reader = "store"
    /\ _config' = [main |-> content.edit, import |-> imported]
    /\ _mtime' = EarlyMtime
    /\ reader' = "stored"
    /\ UNCHANGED <<files, stat, content, imported, _imported_mtimes, asOf, disturbed>>

(* ... and then the times of the imported files, unless one is gone by now. *)
StoreImports ==
    /\ reader = "stored"
    /\ IF imported # NoConfig /\ ~import_file.exists
       THEN reader' = "raised" /\ UNCHANGED _imported_mtimes
       ELSE /\ reader' = "returned"
            /\ _imported_mtimes' = IF imported = NoConfig THEN NoConfig ELSE import_file.edit
    /\ UNCHANGED <<files, stat, content, imported, _config, _mtime, asOf, disturbed>>

ConfigNext ==
    \/ EditMain \/ EditImport
    \/ GetConfig \/ CheckImports \/ Open \/ Evaluate
    \/ CompareForLog \/ Store \/ StoreImports

ConfigSpec == ConfigInit /\ [][ConfigNext]_configVars

-----------------------------------------------------------------------------

(* What get_config returns is made from the main file as it was when       *)
(* get_config was called, or from a later edit of it; a call that raised   *)
(* half way does not make the next one return something older              *)
(* (reloadable_config.py:70-80).                                           *)
MainIsFresh == reader = "returned" => _config.main >= asOf.main

(* The same of the imported file, as long as nobody edited it while the    *)
(* cached value was being made: its time is read after its content         *)
(* (reloadable_config.py:116).                                             *)
ImportIsFresh ==
    reader = "returned" /\ _config.import # NoConfig /\ ~disturbed =>
        _config.import >= asOf.import

(* get_config returns nothing that is older than its call.                 *)
ConfigIsFresh == MainIsFresh /\ ImportIsFresh
=============================================================================
