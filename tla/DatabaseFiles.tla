--------------------------- MODULE DatabaseFiles ---------------------------
(***************************************************************************)
(* The files of the database and the three commands of the program: serve, *)
(* which adopts and migrates the database and then writes to it,           *)
(* --encrypt-db, which puts an encrypted copy in its place, and            *)
(* --backup-plain-data, which may run beside either.  Each may be killed   *)
(* between two of its steps.                                               *)
(***************************************************************************)
EXTENDS Integers, FiniteSets

CONSTANTS Write,       \* what the server writes
          NoFile,      \* no file of that name
          Last,        \* the migrations are 1..Last
          Adopted,     \* those the Go server has applied to its databases
          Repeatable   \* those that may run twice

Version == 1..Last

\* A file: plaintext or ciphertext, or an empty file; what has been written,
\* the migrations recorded and those whose effect is there; whether the Go
\* server's last or an older version made it.
Form == {"blank", "plain", "cipher"}
Content == [form : Form, writes : SUBSET Write, stamps : SUBSET Version,
            effects : SUBSET Version, goose : {"none", "old", "last"}]

\* tallyo.db, its .enc and .bak, the backup's destination and the protected
\* storage; an open file that was renamed over is "gone".
Place == {"path", "enc", "bak", "dest", "kept", "gone"}

ASSUME FileAssumption == NoFile \notin Content
ASSUME VersionAssumption ==
  /\ Last \in Nat /\ Adopted \in 1..Last
  /\ Repeatable \subseteq Version /\ 2..Adopted \subseteq Repeatable

VARIABLES file,     \* what is in each place
          key,      \* is an encryption key configured?
          serve,    \* the server: down, adopt, stamp, migrate, up
          encrypt,  \* --encrypt-db: idle, clean, open, export, aside, install
          backup,   \* --backup-plain-data: idle, create, open, export
          at,       \* where the file is that the backup has open
          \* History:
          acked,    \* what the server has written
          asked,    \* what it had written when the backup began
          finished, \* the backup has reported success
          missed,   \* it opened the database between the encryption's renames
          torn      \* the encryption ended between its renames

vars == <<file, key, serve, encrypt, backup, at, acked, asked, finished, missed, torn>>

Fresh == [form |-> "blank", writes |-> {}, stamps |-> {}, effects |-> {}, goose |-> "none"]

\* A database of the Go server.
OfGo(version, done) == [form |-> "plain", writes |-> {}, stamps |-> {}, effects |-> done,
                        goose |-> version]

\* The first start, or a database of the Go server.
Init ==
  /\ \E first \in {NoFile, OfGo("old", {1}), OfGo("last", 1..Adopted)} :
       file = [p \in Place |-> IF p = "path" THEN first ELSE NoFile]
  /\ key = FALSE /\ serve = "down" /\ encrypt = "idle" /\ backup = "idle" /\ at = "path"
  /\ acked = {} /\ asked = {} /\ finished = FALSE /\ missed = FALSE /\ torn = FALSE

-----------------------------------------------------------------------------
\* Helpers.

Kind(k) == IF k THEN "cipher" ELSE "plain"

\* open: a missing file is created; a file of the other kind is refused.
Opens(c, k) == c # NoFile => c.form \in {"blank", Kind(k)}
Opened(c, k) == IF c = NoFile THEN [Fresh EXCEPT !.form = Kind(k)] ELSE [c EXCEPT !.form = Kind(k)]

\* Mutant: the key is not passed on.
CopiedPlain(c, k) == [c EXCEPT !.form = "plain"]

\* Mutant: the schema is copied, the rows are not.
CopiedSchema(c, k) == [c EXCEPT !.form = Kind(k), !.writes = {}]

\* export_to: every table, in one transaction.
Copied(c, k) == [c EXCEPT !.form = Kind(k)]

\* rename, and where a file is then that the backup has open.
Renamed(p, q) == file' = [file EXCEPT ![q] = file[p], ![p] = NoFile,
                                      !["gone"] = IF at = q /\ backup = "export" THEN file[q] ELSE @]
Moved(p, q) == at' = CASE at = p -> q
                       [] at = q -> "gone"
                       [] OTHER -> at

-----------------------------------------------------------------------------
\* The operator.

\* The key is configured while nothing runs.
Configure ==
  /\ serve = "down" /\ encrypt = "idle" /\ backup = "idle"
  /\ key' = ~key
  /\ UNCHANGED <<file, serve, encrypt, backup, at, acked, asked, finished, missed, torn>>

\* A .bak is moved to protected storage.
MoveBak ==
  /\ encrypt = "idle" /\ file["bak"] # NoFile /\ file["kept"] = NoFile
  /\ Renamed("bak", "kept") /\ Moved("bak", "kept")
  /\ UNCHANGED <<key, serve, encrypt, backup, acked, asked, finished, missed, torn>>

\* Or removed, once the encrypted database has been verified against it.
RemoveBak ==
  /\ encrypt = "idle" /\ backup = "idle"
  /\ file["bak"] # NoFile /\ file["path"] # NoFile
  /\ file["path"].form = "cipher" /\ file["bak"].writes \subseteq file["path"].writes
  /\ file' = [file EXCEPT !["bak"] = NoFile]
  /\ UNCHANGED <<key, serve, encrypt, backup, at, acked, asked, finished, missed, torn>>

RemoveBackup ==
  /\ backup = "idle" /\ file["dest"] # NoFile
  /\ file' = [file EXCEPT !["dest"] = NoFile]
  /\ finished' = FALSE
  /\ UNCHANGED <<key, serve, encrypt, backup, at, acked, asked, missed, torn>>

-----------------------------------------------------------------------------
\* serve: open_database and the requests.  The operator does not start it while
\* the database is being encrypted.

ServeOpen ==
  /\ serve = "down" /\ encrypt = "idle" /\ Opens(file["path"], key)
  /\ file' = [file EXCEPT !["path"] = Opened(file["path"], key)]
  /\ serve' = "adopt"
  /\ UNCHANGED <<key, encrypt, backup, at, acked, asked, finished, missed, torn>>

Adopts(c) == c.goose = "last" /\ c.stamps = {}

\* adopt_goose_database: what the Go server has applied is recorded, one
\* statement after the other.
Adopt ==
  /\ serve = "adopt"
  /\ serve' = IF Adopts(file["path"]) THEN "stamp" ELSE "migrate"
  /\ UNCHANGED <<file, key, encrypt, backup, at, acked, asked, finished, missed, torn>>

\* Mutant: the last one first.
StampLastFirst ==
  /\ serve = "stamp"
  /\ \E v \in 1..Adopted :
       /\ v \notin file["path"].stamps
       /\ \A u \in 1..Adopted : u > v => u \in file["path"].stamps
       /\ file' = [file EXCEPT !["path"].stamps = @ \cup {v}]
       /\ serve' = IF 1..Adopted \subseteq file'["path"].stamps THEN "migrate" ELSE "stamp"
  /\ UNCHANGED <<key, encrypt, backup, at, acked, asked, finished, missed, torn>>

Stamp ==
  /\ serve = "stamp"
  /\ \E v \in 1..Adopted :
       /\ v \notin file["path"].stamps
       /\ \A u \in 1..Adopted : u < v => u \in file["path"].stamps
       /\ file' = [file EXCEPT !["path"].stamps = @ \cup {v}]
       /\ serve' = IF 1..Adopted \subseteq file'["path"].stamps THEN "migrate" ELSE "stamp"
  /\ UNCHANGED <<key, encrypt, backup, at, acked, asked, finished, missed, torn>>

\* The first migration that is not recorded runs, in one transaction with its
\* record; it fails where its effect is already there.
Clashes(v, c) == v \in c.effects \ Repeatable

Migrate ==
  /\ serve = "migrate"
  /\ \E v \in Version :
       /\ v \notin file["path"].stamps
       /\ \A u \in Version : u < v => u \in file["path"].stamps
       /\ IF Clashes(v, file["path"])
            THEN serve' = "down" /\ UNCHANGED file
            ELSE /\ file' = [file EXCEPT !["path"].stamps = @ \cup {v},
                                         !["path"].effects = @ \cup {v}]
                 /\ UNCHANGED serve
  /\ UNCHANGED <<key, encrypt, backup, at, acked, asked, finished, missed, torn>>

Listen ==
  /\ serve = "migrate" /\ Version \subseteq file["path"].stamps
  /\ serve' = "up"
  /\ UNCHANGED <<file, key, encrypt, backup, at, acked, asked, finished, missed, torn>>

Commit(w) ==
  /\ serve = "up" /\ w \notin acked
  /\ file' = [file EXCEPT !["path"].writes = @ \cup {w}]
  /\ acked' = acked \cup {w}
  /\ UNCHANGED <<key, serve, encrypt, backup, at, asked, finished, missed, torn>>

\* It is stopped, fails to start, or is killed.
Stop ==
  /\ serve # "down"
  /\ serve' = "down"
  /\ UNCHANGED <<file, key, encrypt, backup, at, acked, asked, finished, missed, torn>>

-----------------------------------------------------------------------------
\* --encrypt-db, with the server stopped.

\* Mutant: a .bak is overwritten.
EncryptBeginAnyway ==
  /\ encrypt = "idle" /\ serve = "down" /\ key
  /\ encrypt' = "clean"
  /\ UNCHANGED <<file, key, serve, backup, at, acked, asked, finished, missed, torn>>

EncryptBegin ==
  /\ encrypt = "idle" /\ serve = "down" /\ key
  /\ file["bak"] = NoFile
  /\ encrypt' = "clean"
  /\ UNCHANGED <<file, key, serve, backup, at, acked, asked, finished, missed, torn>>

EncryptClean ==
  /\ encrypt = "clean"
  /\ file' = [file EXCEPT !["enc"] = NoFile]
  /\ encrypt' = "open"
  /\ UNCHANGED <<key, serve, backup, at, acked, asked, finished, missed, torn>>

\* A database that is encrypted already is refused; a missing one is created.
EncryptOpen ==
  /\ encrypt = "open"
  /\ IF Opens(file["path"], FALSE)
       THEN /\ file' = [file EXCEPT !["path"] = Opened(file["path"], FALSE)]
            /\ encrypt' = "export"
       ELSE encrypt' = "idle" /\ UNCHANGED file
  /\ UNCHANGED <<key, serve, backup, at, acked, asked, finished, missed, torn>>

\* ATTACH creates the file, sqlcipher_export fills it.
EncryptExport ==
  /\ encrypt = "export"
  /\ \/ /\ file["enc"] = NoFile
        /\ file' = [file EXCEPT !["enc"] = Fresh]
        /\ UNCHANGED encrypt
     \/ /\ file["enc"] # NoFile
        /\ file' = [file EXCEPT !["enc"] = Copied(file["path"], TRUE)]
        /\ encrypt' = "aside"
  /\ UNCHANGED <<key, serve, backup, at, acked, asked, finished, missed, torn>>

EncryptAside ==
  /\ encrypt = "aside"
  /\ Renamed("path", "bak") /\ Moved("path", "bak")
  /\ encrypt' = "install"
  /\ UNCHANGED <<key, serve, backup, acked, asked, finished, missed, torn>>

\* The encrypted file takes the name; when that fails the original gets it
\* back, if that does not fail too.
EncryptInstall ==
  /\ encrypt = "install"
  /\ encrypt' = "idle"
  /\ \/ Renamed("enc", "path") /\ Moved("enc", "path") /\ UNCHANGED torn
     \/ Renamed("bak", "path") /\ Moved("bak", "path") /\ UNCHANGED torn
     \/ torn' = TRUE /\ UNCHANGED <<file, at>>
  /\ UNCHANGED <<key, serve, backup, acked, asked, finished, missed>>

\* Killed, or stopped by an error.
EncryptEnds ==
  /\ encrypt # "idle"
  /\ encrypt' = "idle"
  /\ torn' = (torn \/ encrypt = "install")
  /\ UNCHANGED <<file, key, serve, backup, at, acked, asked, finished, missed>>

-----------------------------------------------------------------------------
\* --backup-plain-data.

BackupBegin ==
  /\ backup = "idle" /\ file["path"] # NoFile
  /\ backup' = "create" /\ asked' = acked /\ finished' = FALSE /\ missed' = FALSE
  /\ UNCHANGED <<file, key, serve, encrypt, at, acked, torn>>

\* create_new
BackupCreate ==
  /\ backup = "create"
  /\ IF file["dest"] = NoFile
       THEN file' = [file EXCEPT !["dest"] = Fresh] /\ backup' = "open"
       ELSE backup' = "idle" /\ UNCHANGED file
  /\ UNCHANGED <<key, serve, encrypt, at, acked, asked, finished, missed, torn>>

BackupOpen ==
  /\ backup = "open" /\ Opens(file["path"], key)
  /\ file' = [file EXCEPT !["path"] = Opened(file["path"], key)]
  /\ missed' = (encrypt = "install")
  /\ at' = "path"
  /\ backup' = "export"
  /\ UNCHANGED <<key, serve, encrypt, acked, asked, finished, torn>>

BackupExport ==
  /\ backup = "export"
  /\ file' = [file EXCEPT !["dest"] = Copied(file[at], FALSE)]
  /\ finished' = TRUE
  /\ backup' = "idle"
  /\ UNCHANGED <<key, serve, encrypt, at, acked, asked, missed, torn>>

\* An error removes the destination.
BackupFail ==
  /\ backup \in {"open", "export"}
  /\ file' = [file EXCEPT !["dest"] = NoFile]
  /\ backup' = "idle"
  /\ UNCHANGED <<key, serve, encrypt, at, acked, asked, finished, missed, torn>>

\* Killed, it leaves it behind.
BackupKilled ==
  /\ backup # "idle"
  /\ backup' = "idle"
  /\ UNCHANGED <<file, key, serve, encrypt, at, acked, asked, finished, missed, torn>>

-----------------------------------------------------------------------------
Operator == Configure \/ MoveBak \/ RemoveBak \/ RemoveBackup
Serve == \/ ServeOpen \/ Adopt \/ Stamp \/ Migrate \/ Listen \/ Stop
         \/ \E w \in Write : Commit(w)
Encrypt == \/ EncryptBegin \/ EncryptClean \/ EncryptOpen \/ EncryptExport
           \/ EncryptAside \/ EncryptInstall \/ EncryptEnds
Backup == \/ BackupBegin \/ BackupCreate \/ BackupOpen \/ BackupExport
          \/ BackupFail \/ BackupKilled

Next == Operator \/ Serve \/ Encrypt \/ Backup

Spec == Init /\ [][Next]_vars

-----------------------------------------------------------------------------
\* The variables hold what their types say, and a program that has opened a
\* file has a file of the kind it opened (open, encrypt_existing).
TypeOK ==
  /\ file \in [Place -> Content \cup {NoFile}]
  /\ at \in {"path", "bak", "kept", "gone"}
  /\ {key, finished, missed, torn} \subseteq BOOLEAN
  /\ serve \in {"down", "adopt", "stamp", "migrate", "up"}
  /\ encrypt \in {"idle", "clean", "open", "export", "aside", "install"}
  /\ backup \in {"idle", "create", "open", "export"}
  /\ acked \subseteq Write /\ asked \subseteq acked
  /\ serve # "down" => encrypt = "idle" /\ file["path"] # NoFile
                       /\ file["path"].form = Kind(key)
  /\ encrypt \in {"export", "aside"} => file["path"] # NoFile /\ file["path"].form = "plain"
  /\ encrypt \in {"aside", "install"} => file["enc"] # NoFile /\ file["enc"].form = "cipher"
  /\ backup \in {"open", "export"} => file["dest"] # NoFile
  /\ backup = "export" => file[at] # NoFile

\* Everything the server has written stays in the database, its .bak or the
\* protected storage; and in the database itself, unless an encryption ended
\* between its renames.
WritesKept ==
  /\ \A w \in acked : \E p \in {"path", "bak", "kept"} :
       file[p] # NoFile /\ w \in file[p].writes
  /\ (acked # {} /\ encrypt # "install" /\ ~torn)
       => file["path"] # NoFile /\ acked \subseteq file["path"].writes

\* A backup that has reported success holds what had been written when it
\* began, unless it opened the database between an encryption's renames.
BackupIsSnapshot ==
  (finished /\ ~missed /\ ~torn)
    => /\ file["dest"] # NoFile /\ file["dest"].form = "plain"
       /\ asked \subseteq file["dest"].writes /\ file["dest"].writes \subseteq acked

\* A database of the last Go version never meets a migration it has had that
\* cannot be repeated, wherever its adoption was interrupted.
NoneTwice ==
  (serve = "migrate" /\ file["path"].goose # "old")
    => \A v \in Version \ file["path"].stamps : ~Clashes(v, file["path"])

\* Every copy of the database, wherever it was left, has had the migrations up
\* to some version and no gap, with the effect of each (Migrator::run, and what
\* adopt_goose_database records instead of running).
UpToAVersion ==
  \A p \in Place : file[p] # NoFile =>
    /\ file[p].stamps \subseteq file[p].effects
    /\ \A v \in file[p].stamps : 1..v \subseteq file[p].stamps

\* The server answers requests only on a database with the whole schema,
\* whatever became of the starts before (open_database).
ServesWholeSchema ==
  serve = "up" => Version \subseteq file["path"].stamps \cap file["path"].effects

\* An encrypted database with something in it stays one: no run of
\* --encrypt-db, failed or repeated, puts a plain file back in its place, and
\* no server or backup opens it as one (encrypt_existing, open).
Encrypted ==
  file["path"] # NoFile /\ file["path"].form = "cipher" /\ file["path"].writes # {}

EncryptedStays == [][Encrypted => Encrypted']_vars

=============================================================================
