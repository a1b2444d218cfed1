--------------------------- MODULE Provisioning ---------------------------
(***************************************************************************)
(* Libraries are created, adopted, renamed, initialised and deleted by     *)
(* requests that run side by side.  A creation looks for its slug in the   *)
(* table and on the disk, makes two folders and a config file, lets beets  *)
(* verify the config (which makes the database) and commits its row last;  *)
(* a failure at the end removes what stands at its paths.                  *)
(*                                                                         *)
(* A slug is a number: name n has slug n, its numbered variants n+1, n+2;  *)
(* the paths of a library are all derived from one slug, so `at` stands    *)
(* for the four of them.  A request that is refused at its first check     *)
(* changes nothing and is left out.                                        *)
(***************************************************************************)
EXTENDS Naturals

CONSTANTS Request,          \* the requests; each runs once
          Name,             \* the names libraries are given, a set of numbers
          MaxSlug,          \* bound: the largest slug
          MaxProvFaults     \* bound: how many file or database steps fail

Slug == 1..MaxSlug
Kind == {"library", "import"}

VARIABLES rows,        \* table libraries: [id, name, slug, at]
          config,      \* slugs with a config file
          database,    \* slugs with a beets database
          folder,      \* (kind, slug) -> "absent", "empty" or "full"
          req,         \* request -> where it is and what it holds
          provFaults,
          spoiled      \* history: slugs whose paths two owners could claim

vars == <<rows, config, database, folder, req, provFaults, spoiled>>
disk == <<config, database, folder>>

Pcs == {"idle", "checked", "chosen", "one", "two", "written", "provisioned",
        "removing", "undoing", "done"}
Resource == {"config", "database", "library", "import"}

Idle == [pc |-> "idle", name |-> 0, slug |-> 0, known |-> {}, todo |-> {}]

(* Nothing is there yet, or one library that was renamed since it was      *)
(* created: its slug is 2, its paths are those of slug 1.                  *)
OldRow == [id |-> "old", name |-> 1, slug |-> 2, at |-> 1]

Init == /\ rows \in {{}, {OldRow}}
        /\ config = {row.at : row \in rows} /\ database = config
        /\ folder = [p \in Kind \X Slug |-> IF p[2] \in config THEN "full" ELSE "absent"]
        /\ req = [r \in Request |-> Idle]
        /\ provFaults = 0 /\ spoiled = {}

TypeOK ==
    /\ rows \subseteq [id : Request \union {"old"}, name : Name, slug : Slug, at : Slug]
    /\ config \subseteq Slug /\ database \subseteq Slug
    /\ folder \in [Kind \X Slug -> {"absent", "empty", "full"}]
    /\ \A r \in Request : /\ req[r].pc \in Pcs
                          /\ req[r].slug \in 0..MaxSlug
                          /\ req[r].todo \subseteq Resource
    /\ provFaults \in 0..MaxProvFaults /\ spoiled \subseteq Slug

Slugs == {row.slug : row \in rows}
Names == {row.name : row \in rows}

At(r, pc) == req[r].pc = pc
Go(r, pc) == req' = [req EXCEPT ![r].pc = pc]

(* Mutant: a check of the table's slugs instead of the disk. *)
CollisionForgotten(s) == s \in {row.slug : row \in rows}

(* check_slug_collision *)
Collision(s) == \/ s \in config \/ s \in database
                \/ \E k \in Kind : folder[k, s] # "absent"

(* generate_unique_slug: the first variant that is neither on the disk nor *)
(* among the slugs read at the start of the request.                       *)
Unique(s, n, known) ==
    /\ s >= n /\ ~Collision(s) /\ s \notin known
    /\ \A t \in n..(s - 1) : Collision(t) \/ t \in known

(* create_library up to the call of provision_library: name and slug are   *)
(* free in the table.  Slug 0: none given.                                 *)
CheckTable(r, n, s) ==
    /\ At(r, "idle") /\ n \notin Names /\ s \notin Slugs
    /\ req' = [req EXCEPT ![r] = [Idle EXCEPT !.pc = "checked", !.name = n,
                                              !.slug = s, !.known = Slugs]]
    /\ UNCHANGED <<rows, disk, provFaults, spoiled>>

(* The creations that hold slug s from the choice of it to their end. *)
Holders(s) == {r \in Request : req[r].slug = s
                   /\ req[r].pc \in {"chosen", "one", "two", "written", "provisioned", "undoing"}}

(* provision_library: a given slug must be free on the disk, or the        *)
(* request is answered 409; otherwise a free one is generated.             *)
ChooseSlug(r) ==
    /\ At(r, "checked")
    /\ IF req[r].slug # 0
       THEN /\ Go(r, IF Collision(req[r].slug) THEN "done" ELSE "chosen")
            /\ spoiled' = IF Collision(req[r].slug) \/ Holders(req[r].slug) = {}
                          THEN spoiled ELSE spoiled \union {req[r].slug}
       ELSE \E s \in Slug :
               /\ Unique(s, req[r].name, req[r].known)
               /\ req' = [req EXCEPT ![r].pc = "chosen", ![r].slug = s]
               /\ spoiled' = IF Holders(s) = {} THEN spoiled ELSE spoiled \union {s}
    /\ UNCHANGED <<rows, disk, provFaults>>

Make(k, s) == folder' = [folder EXCEPT ![<<k, s>>] = IF @ = "absent" THEN "empty" ELSE @]

(* create_directories: the library folder, then the import folder. *)
MakeFolder(r, k) ==
    /\ IF k = "library" THEN At(r, "chosen") ELSE At(r, "one")
    /\ Make(k, req[r].slug)
    /\ Go(r, IF k = "library" THEN "one" ELSE "two")
    /\ UNCHANGED <<rows, config, database, provFaults, spoiled>>

(* write_config_file opens for writing: what stood there is replaced. *)
WriteConfig(r) ==
    /\ At(r, "two") /\ config' = config \union {req[r].slug} /\ Go(r, "written")
    /\ UNCHANGED <<rows, database, folder, provFaults, spoiled>>

(* An OSError in one of these: provision_library has returned nothing, so  *)
(* the handler removes nothing.                                            *)
ProvisionFails(r) ==
    /\ \E pc \in {"chosen", "one", "two"} : At(r, pc)
    /\ provFaults < MaxProvFaults /\ provFaults' = provFaults + 1
    /\ Go(r, "done")
    /\ UNCHANGED <<rows, disk, spoiled>>

(* verify_library_config never raises; beets makes the database or not. *)
VerifyConfig(r) ==
    /\ At(r, "written")
    /\ \/ database' = database \union {req[r].slug}
       \/ UNCHANGED database
    /\ Go(r, "provisioned")
    /\ UNCHANGED <<rows, config, folder, provFaults, spoiled>>

(* cleanup_on_failure removes the config file and the empty folders; the   *)
(* database stays.                                                         *)
Undo(r) == req' = [req EXCEPT ![r].pc = "undoing",
                              ![r].todo = {"config", "library", "import"}]

NewRow(r) == [id |-> r, name |-> req[r].name, slug |-> req[r].slug, at |-> req[r].slug]

(* create_library: the row is committed when name and slug are still free  *)
(* in the table, and the request is answered.                              *)
CommitRow(r) ==
    /\ At(r, "provisioned") /\ req[r].name \notin Names /\ req[r].slug \notin Slugs
    /\ rows' = rows \union {NewRow(r)} /\ Go(r, "done")
    /\ UNCHANGED <<disk, provFaults, spoiled>>

(* IntegrityError: another request took the name or the slug meanwhile. *)
CommitRefused(r) ==
    /\ At(r, "provisioned") /\ (req[r].name \in Names \/ req[r].slug \in Slugs)
    /\ Undo(r)
    /\ UNCHANGED <<rows, disk, provFaults, spoiled>>

(* The database fails in the commit, or after it in the refresh: the       *)
(* handler then removes the files of a library that is in the table.       *)
CommitFails(r) ==
    /\ At(r, "provisioned") /\ provFaults < MaxProvFaults /\ provFaults' = provFaults + 1
    /\ \/ UNCHANGED <<rows, spoiled>>
       \/ /\ req[r].name \notin Names /\ req[r].slug \notin Slugs
          /\ rows' = rows \union {NewRow(r)}
          /\ spoiled' = spoiled \union {req[r].slug}
    /\ Undo(r)
    /\ UNCHANGED disk

(* The order in which both clean-ups go through the resources. *)
Turn == [config |-> 1, database |-> 2, library |-> 3, import |-> 4]

(* One resource of cleanup_on_failure or of cleanup_resources: the first   *)
(* removes a folder only when it is empty, the second with its contents.   *)
RemoveNext(r) ==
    /\ req[r].pc \in {"undoing", "removing"}
    /\ \E it \in req[r].todo :
       LET s == req[r].slug IN
       /\ \A other \in req[r].todo : Turn[it] <= Turn[other]
       /\ config' = IF it = "config" THEN config \ {s} ELSE config
       /\ database' = IF it = "database" THEN database \ {s} ELSE database
       /\ folder' = IF it \in Kind /\ (At(r, "removing") \/ folder[it, s] = "empty")
                    THEN [folder EXCEPT ![<<it, s>>] = "absent"] ELSE folder
       /\ req' = [req EXCEPT ![r].todo = @ \ {it},
                             ![r].pc = IF req[r].todo = {it} THEN "done" ELSE @]
    /\ UNCHANGED <<rows, provFaults, spoiled>>

(* adopt_library: name and slug are free in the table, the paths are those *)
(* of the request, whatever they hold and whoever uses them; the config is *)
(* verified.                                                               *)
AdoptLibrary(r, n, s, at) ==
    /\ At(r, "idle") /\ n \notin Names /\ s \notin Slugs
    /\ rows' = rows \union {[id |-> r, name |-> n, slug |-> s, at |-> at]}
    /\ spoiled' = spoiled \union {at}
    /\ \/ at \in config /\ database' = database \union {at}
       \/ UNCHANGED database
    /\ Go(r, "done")
    /\ UNCHANGED <<config, folder, provFaults>>

(* update_library: a new slug, the paths stay. *)
UpdateLibrary(r, row, s) ==
    /\ At(r, "idle") /\ row \in rows /\ s \notin Slugs
    /\ rows' = (rows \ {row}) \union {[row EXCEPT !.slug = s]}
    /\ Go(r, "done")
    /\ UNCHANGED <<disk, provFaults, spoiled>>

(* What a deletion removes. *)
Unkept(keepConfig, keepDatabase, keepFolders) ==
    Resource \ (   (IF keepConfig THEN {"config"} ELSE {})
               \cup (IF keepDatabase THEN {"database"} ELSE {})
               \cup (IF keepFolders THEN Kind ELSE {}))

(* delete_library: the row goes first, in a commit of its own. *)
DeleteLibrary(r, row, todo) ==
    /\ At(r, "idle") /\ row \in rows
    /\ rows' = rows \ {row}
    /\ req' = [req EXCEPT ![r].pc = IF todo = {} THEN "done" ELSE "removing",
                          ![r].slug = row.at, ![r].todo = todo]
    /\ UNCHANGED <<disk, provFaults, spoiled>>

(* initialize_library: with a readable config, the library folder and the  *)
(* database are made when they are not there.                              *)
InitializeLibrary(row) ==
    /\ row \in rows /\ row.at \in config
    /\ Make("library", row.at)
    /\ \/ database' = database \union {row.at}
       \/ UNCHANGED database
    /\ UNCHANGED <<rows, config, req, provFaults, spoiled>>

(* The library is used: albums are imported or folders uploaded. *)
Fill(row, k) ==
    /\ row \in rows /\ folder[k, row.at] = "empty"
    /\ folder' = [folder EXCEPT ![<<k, row.at>>] = "full"]
    /\ UNCHANGED <<rows, config, database, req, provFaults, spoiled>>

Step(r) ==
    \/ \E n \in Name : \/ \E s \in Slug \union {0} : CheckTable(r, n, s)
                       \/ \E s, at \in Slug : AdoptLibrary(r, n, s, at)
    \/ ChooseSlug(r) \/ \E k \in Kind : MakeFolder(r, k)
    \/ WriteConfig(r) \/ ProvisionFails(r) \/ VerifyConfig(r)
    \/ CommitRow(r) \/ CommitRefused(r) \/ CommitFails(r) \/ RemoveNext(r)
    \/ \E row \in rows : \/ \E s \in Slug : UpdateLibrary(r, row, s)
                         \/ \E kc, kd, kf \in BOOLEAN : DeleteLibrary(r, row, Unkept(kc, kd, kf))

Next == \/ \E r \in Request : Step(r)
        \/ \E row \in rows : InitializeLibrary(row) \/ \E k \in Kind : Fill(row, k)

Spec == Init /\ [][Next]_vars

-----------------------------------------------------------------------------
(* A library in the table has its config file and both folders, and shares *)
(* its paths with no other library, whatever requests ran beside its       *)
(* creation and whatever failed - except at paths that two creations chose *)
(* at the same time, that were adopted, or whose creation failed after its *)
(* commit.                                                                 *)
FilesKept ==
    \A row \in rows : row.at \notin spoiled =>
        /\ row.at \in config
        /\ \A k \in Kind : folder[k, row.at] # "absent"
        /\ \A other \in rows : other.at = row.at => other = row

-----------------------------------------------------------------------------
(* Why it holds: at a slug nobody spoiled there is one party - a library, a *)
(* creation or a deletion at work - and the slug stays taken on the disk    *)
(* for as long as a library or a deletion is there.                         *)
Holding(r) == req[r].pc \in {"chosen", "one", "two", "written", "provisioned", "undoing"}
Removing(r) == req[r].pc = "removing"

Records ==
    /\ req \in [Request -> [pc : Pcs, name : Name \cup {0}, slug : 0..MaxSlug,
                            known : SUBSET Slug, todo : SUBSET Resource]]
    /\ \A r \in Request : /\ Holding(r) => req[r].slug \in Slug /\ req[r].name \in Name
                          /\ At(r, "checked") => req[r].name \in Name
                          /\ Removing(r) => req[r].slug \in Slug

OneParty ==
    /\ \A row, other \in rows :
           row.at = other.at /\ row.at \notin spoiled => other = row
    /\ \A r \in Request : (Holding(r) \/ Removing(r)) /\ req[r].slug \notin spoiled =>
           /\ \A row \in rows : row.at # req[r].slug
           /\ \A q \in Request \ {r} : Holding(q) \/ Removing(q) => req[q].slug # req[r].slug

RowTaken(row) ==
    row.at \in config /\ folder["library", row.at] # "absent" /\ folder["import", row.at] # "absent"

RequestTaken(r) ==
    LET s == req[r].slug IN
    /\ req[r].pc \in {"one", "two", "written", "provisioned"} => folder["library", s] # "absent"
    /\ req[r].pc \in {"two", "written", "provisioned"} => folder["import", s] # "absent"
    /\ req[r].pc \in {"written", "provisioned"} => s \in config
    /\ Removing(r) => IF "import" \in req[r].todo THEN folder["import", s] # "absent"
                      ELSE "library" \notin req[r].todo /\ folder["library", s] # "absent"

TakenOnDisk ==
    /\ \A row \in rows : row.at \notin spoiled => RowTaken(row)
    /\ \A r \in Request : req[r].slug \notin spoiled => RequestTaken(r)

ProvisionInv == TypeOK /\ Records /\ OneParty /\ TakenOnDisk
=============================================================================
