------------------------ MODULE DatabaseFilesProofs ------------------------
(***************************************************************************)
(* Proofs of the safety properties of DatabaseFiles, for any writes and    *)
(* any number of migrations.                                               *)
(***************************************************************************)
EXTENDS DatabaseFiles, TLAPS

-----------------------------------------------------------------------------
(* Contents *)

LEMMA FreshContent ==
  /\ Fresh \in Content
  /\ Fresh.form = "blank" /\ Fresh.writes = {} /\ Fresh.stamps = {} /\ Fresh.effects = {}
  /\ Fresh.goose = "none"
BY DEF Fresh, Content, Form

LEMMA KindForm == \A k \in BOOLEAN : Kind(k) \in {"plain", "cipher"}
BY DEF Kind

\* Another form is all that opening and exporting change.
LEMMA Reformed ==
  ASSUME NEW c \in Content, NEW f \in Form
  PROVE  LET d == [c EXCEPT !.form = f] IN
         /\ d \in Content /\ d.form = f /\ d.writes = c.writes
         /\ d.stamps = c.stamps /\ d.effects = c.effects /\ d.goose = c.goose
BY DEF Content

LEMMA CopiedContent ==
  ASSUME NEW c \in Content, NEW k \in BOOLEAN
  PROVE  /\ Copied(c, k) \in Content /\ Copied(c, k).form = Kind(k)
         /\ Copied(c, k).writes = c.writes /\ Copied(c, k).stamps = c.stamps
         /\ Copied(c, k).effects = c.effects /\ Copied(c, k).goose = c.goose
<1>1. Kind(k) \in Form
  BY KindForm DEF Form
<1> QED BY <1>1, Reformed DEF Copied

\* What a file is after open, if it was there before and if it was not.
LEMMA OpenedContent ==
  ASSUME NEW c \in Content \cup {NoFile}, NEW k \in BOOLEAN
  PROVE  /\ Opened(c, k) \in Content /\ Opened(c, k).form = Kind(k)
         /\ Opened(c, k) # NoFile
         /\ c # NoFile => /\ Opened(c, k).writes = c.writes
                          /\ Opened(c, k).stamps = c.stamps
                          /\ Opened(c, k).effects = c.effects
                          /\ Opened(c, k).goose = c.goose
         /\ c = NoFile => /\ Opened(c, k).writes = {} /\ Opened(c, k).stamps = {}
                          /\ Opened(c, k).effects = {} /\ Opened(c, k).goose = "none"
<1>1. Kind(k) \in Form
  BY KindForm DEF Form
<1>2. CASE c = NoFile
  <2>1. Opened(c, k) = [Fresh EXCEPT !.form = Kind(k)]
    BY <1>2 DEF Opened
  <2> QED BY <1>1, <1>2, <2>1, FreshContent, Reformed, FileAssumption
<1>3. CASE c # NoFile
  <2>1. Opened(c, k) = [c EXCEPT !.form = Kind(k)] /\ c \in Content
    BY <1>3 DEF Opened
  <2> QED BY <1>1, <1>3, <2>1, Reformed, FileAssumption
<1> QED BY <1>2, <1>3

\* A migration is recorded, and perhaps its effect.
LEMMA StampedContent ==
  ASSUME NEW c \in Content, NEW v \in Version
  PROVE  /\ [c EXCEPT !.stamps = @ \cup {v}] \in Content
         /\ [c EXCEPT !.stamps = @ \cup {v}].form = c.form
         /\ [c EXCEPT !.stamps = @ \cup {v}].writes = c.writes
         /\ [c EXCEPT !.stamps = @ \cup {v}].stamps = c.stamps \cup {v}
         /\ [c EXCEPT !.stamps = @ \cup {v}].effects = c.effects
         /\ [c EXCEPT !.stamps = @ \cup {v}].goose = c.goose
         /\ [c EXCEPT !.effects = @ \cup {v}] \in Content
         /\ [c EXCEPT !.effects = @ \cup {v}].form = c.form
         /\ [c EXCEPT !.effects = @ \cup {v}].writes = c.writes
         /\ [c EXCEPT !.effects = @ \cup {v}].stamps = c.stamps
         /\ [c EXCEPT !.effects = @ \cup {v}].effects = c.effects \cup {v}
         /\ [c EXCEPT !.effects = @ \cup {v}].goose = c.goose
BY DEF Content

LEMMA WrittenContent ==
  ASSUME NEW c \in Content, NEW w \in Write
  PROVE  /\ [c EXCEPT !.writes = @ \cup {w}] \in Content
         /\ [c EXCEPT !.writes = @ \cup {w}].form = c.form
         /\ [c EXCEPT !.writes = @ \cup {w}].writes = c.writes \cup {w}
         /\ [c EXCEPT !.writes = @ \cup {w}].stamps = c.stamps
         /\ [c EXCEPT !.writes = @ \cup {w}].effects = c.effects
         /\ [c EXCEPT !.writes = @ \cup {w}].goose = c.goose
BY DEF Content

-----------------------------------------------------------------------------
(* What a step makes of the files *)

\* A file is put somewhere.
Put(p, c) == file' = [file EXCEPT ![p] = c]

LEMMA PutFiles ==
  ASSUME TypeOK, NEW p \in Place, NEW c \in Content \cup {NoFile}, Put(p, c)
  PROVE  /\ file' \in [Place -> Content \cup {NoFile}]
         /\ file'[p] = c /\ \A q \in Place \ {p} : file'[q] = file[q]
BY DEF TypeOK, Put

\* A file is renamed, perhaps over one the backup has open.
LEMMA RenamedFiles ==
  ASSUME TypeOK, NEW p \in Place \ {"gone"}, NEW q \in Place \ {"gone", p}, Renamed(p, q)
  PROVE  /\ file' \in [Place -> Content \cup {NoFile}]
         /\ file'[q] = file[p] /\ file'[p] = NoFile
         /\ file'["gone"] = IF at = q /\ backup = "export" THEN file[q] ELSE file["gone"]
         /\ \A r \in Place \ {p, q, "gone"} : file'[r] = file[r]
BY DEF TypeOK, Renamed, Place

\* The backup's open file goes where the rename takes it.
LEMMA MovedFile ==
  ASSUME TypeOK, NEW p \in Place \ {"gone"}, NEW q \in Place \ {"gone", p},
         Renamed(p, q), Moved(p, q), backup = "export", q \notin {"enc", "dest"}
  PROVE  file'[at'] = file[at] /\ at' \in {"path", "bak", "kept", "gone"}
<1>1. at \in Place \ {"enc", "dest"}
  BY DEF TypeOK, Place
<1>0. /\ file'[q] = file[p]
      /\ at = q => file'["gone"] = file[q]
      /\ at = "gone" /\ at # q => file'[at] = file[at]
      /\ \A r \in Place \ {p, q, "gone"} : file'[r] = file[r]
  BY RenamedFiles
<1>2. CASE at = p
  <2>1. at' = q /\ p # "enc"
    BY <1>1, <1>2 DEF Moved
  <2> QED BY <1>0, <1>2, <2>1 DEF Place
<1>3. CASE at = q
  <2>1. at' = "gone"
    BY <1>3 DEF Moved
  <2> QED BY <1>0, <1>3, <2>1
<1>4. CASE at # p /\ at # q
  <2>1. at' = at
    BY <1>4 DEF Moved
  <2> QED BY <1>0, <1>1, <1>4, <2>1 DEF Place
<1> QED BY <1>2, <1>3, <1>4

\* The steps of the server that write its database.
ServeWrites == Stamp \/ Migrate \/ \E w \in Write : Commit(w)

LEMMA ServeFile ==
  ASSUME TypeOK, ServeWrites
  PROVE  /\ \E c \in Content : Put("path", c) /\ c.form = file["path"].form
                               /\ file["path"].writes \subseteq c.writes
         /\ file["path"] \in Content
<1>1. file["path"] \in Content
  BY DEF TypeOK, Place, ServeWrites, Stamp, Migrate, Commit
<1>2. CASE Stamp
  <2>1. PICK v \in 1..Adopted : file' = [file EXCEPT !["path"].stamps = @ \cup {v}]
    BY <1>2 DEF Stamp
  <2>2. v \in Version
    BY VersionAssumption DEF Version
  <2> DEFINE c == [file["path"] EXCEPT !.stamps = @ \cup {v}]
  <2>3. Put("path", c)
    BY <2>1 DEF Put
  <2>4. c \in Content /\ c.form = file["path"].form /\ c.writes = file["path"].writes
    BY <1>1, <2>2, StampedContent
  <2> HIDE DEF c
  <2> QED BY <1>1, <2>3, <2>4
<1>3. CASE Migrate /\ UNCHANGED file
  <2>1. Put("path", file["path"])
    BY <1>3 DEF Put, TypeOK, Place
  <2> QED BY <1>1, <2>1
<1>4. CASE Migrate /\ ~UNCHANGED file
  <2>1. PICK v \in Version : file' = [file EXCEPT !["path"].stamps = @ \cup {v},
                                                   !["path"].effects = @ \cup {v}]
    BY <1>4 DEF Migrate
  <2> DEFINE c == [file["path"] EXCEPT !.stamps = @ \cup {v}]
             d == [c EXCEPT !.effects = @ \cup {v}]
  <2>2. c \in Content /\ c.form = file["path"].form /\ c.writes = file["path"].writes
    BY <1>1, <2>1, StampedContent
  <2>3. d \in Content /\ d.form = c.form /\ d.writes = c.writes
    BY <2>1, <2>2, StampedContent
  <2>4. Put("path", d)
    BY <2>1 DEF Put, TypeOK, Place
  <2> HIDE DEF c, d
  <2> QED BY <1>1, <2>2, <2>3, <2>4
<1>5. CASE \E w \in Write : Commit(w)
  <2>1. PICK w \in Write : file' = [file EXCEPT !["path"].writes = @ \cup {w}]
    BY <1>5 DEF Commit
  <2> DEFINE c == [file["path"] EXCEPT !.writes = @ \cup {w}]
  <2>2. Put("path", c)
    BY <2>1 DEF Put
  <2>3. c \in Content /\ c.form = file["path"].form /\ c.writes = file["path"].writes \cup {w}
    BY <1>1, WrittenContent
  <2> HIDE DEF c
  <2> QED BY <1>1, <2>2, <2>3
<1> QED BY <1>1, <1>2, <1>3, <1>4, <1>5 DEF ServeWrites

-----------------------------------------------------------------------------
(* Types *)

LEMMA TypeInit == Init => TypeOK
<1> SUFFICES ASSUME Init PROVE TypeOK
  OBVIOUS
<1>1. PICK first : /\ first \in {NoFile, OfGo("old", {1}), OfGo("last", 1..Adopted)}
                   /\ file = [p \in Place |-> IF p = "path" THEN first ELSE NoFile]
  BY DEF Init
<1>2. {1} \subseteq Version /\ 1..Adopted \subseteq Version
  BY VersionAssumption DEF Version
<1>3. first \in Content \cup {NoFile}
  <2>1. OfGo("old", {1}) \in Content
    BY <1>2 DEF OfGo, Content, Form
  <2>2. OfGo("last", 1..Adopted) \in Content
    BY <1>2 DEF OfGo, Content, Form
  <2> QED BY <1>1, <2>1, <2>2
<1> QED BY <1>1, <1>3 DEF Init, TypeOK

\* The operator, and the steps that write no file.
Quiet == \/ Configure \/ RemoveBak \/ RemoveBackup \/ Adopt \/ Listen \/ Stop
         \/ EncryptBegin \/ EncryptClean \/ EncryptEnds
         \/ BackupBegin \/ BackupFail \/ BackupKilled

LEMMA TypeQuiet == TypeOK /\ Quiet => TypeOK'
<1> SUFFICES ASSUME TypeOK, Quiet PROVE TypeOK'
  OBVIOUS
<1>1. CASE Configure
  BY <1>1, KindForm DEF Configure, TypeOK
<1>2. CASE RemoveBak
  BY <1>2 DEF RemoveBak, TypeOK, Place
<1>3. CASE RemoveBackup
  BY <1>3 DEF RemoveBackup, TypeOK, Place
<1>4. CASE Adopt \/ Listen \/ Stop
  BY <1>4 DEF Adopt, Listen, Stop, TypeOK
<1>5. CASE EncryptBegin
  BY <1>5 DEF EncryptBegin, TypeOK
<1>6. CASE EncryptClean
  BY <1>6 DEF EncryptClean, TypeOK, Place
<1>7. CASE EncryptEnds
  BY <1>7 DEF EncryptEnds, TypeOK
<1>8. CASE BackupBegin \/ BackupKilled
  BY <1>8 DEF BackupBegin, BackupKilled, TypeOK
<1>9. CASE BackupFail
  BY <1>9 DEF BackupFail, TypeOK, Place
<1> QED BY <1>1, <1>2, <1>3, <1>4, <1>5, <1>6, <1>7, <1>8, <1>9 DEF Quiet

LEMMA TypeServe == TypeOK /\ (ServeOpen \/ ServeWrites) => TypeOK'
<1> SUFFICES ASSUME TypeOK, ServeOpen \/ ServeWrites PROVE TypeOK'
  OBVIOUS
<1>1. CASE ServeOpen
  <2>1. file["path"] \in Content \cup {NoFile} /\ key \in BOOLEAN
    BY DEF TypeOK, Place
  <2> DEFINE c == Opened(file["path"], key)
  <2>2. c \in Content /\ c.form = Kind(key) /\ c # NoFile
    BY <2>1, OpenedContent
  <2>3. Put("path", c)
    BY <1>1 DEF ServeOpen, Put
  <2> HIDE DEF c
  <2>4. /\ file' \in [Place -> Content \cup {NoFile}]
        /\ file'["path"] = c /\ \A q \in Place \ {"path"} : file'[q] = file[q]
    BY <2>2, <2>3, PutFiles DEF Place
  <2> QED BY <1>1, <2>2, <2>4 DEF ServeOpen, TypeOK, Place
<1>2. CASE ServeWrites
  <2>1. PICK c \in Content : Put("path", c) /\ c.form = file["path"].form
    BY <1>2, ServeFile
  <2>2. /\ file' \in [Place -> Content \cup {NoFile}]
        /\ file'["path"] = c /\ \A q \in Place \ {"path"} : file'[q] = file[q]
    BY <2>1, PutFiles DEF Place
  <2>3. /\ serve # "down" /\ serve' \in {"down", "stamp", "migrate", "up"}
        /\ UNCHANGED <<key, encrypt, backup, at, asked, finished, missed, torn>>
        /\ acked \subseteq acked' /\ acked' \subseteq Write
    BY <1>2 DEF ServeWrites, Stamp, Migrate, Commit, TypeOK
  <2>4. c # NoFile
    BY FileAssumption
  <2> QED BY <2>1, <2>2, <2>3, <2>4 DEF TypeOK, Place
<1> QED BY <1>1, <1>2

LEMMA TypeEncrypt == TypeOK /\ (EncryptOpen \/ EncryptExport) => TypeOK'
<1> SUFFICES ASSUME TypeOK, EncryptOpen \/ EncryptExport PROVE TypeOK'
  OBVIOUS
<1>1. CASE EncryptOpen /\ ~Opens(file["path"], FALSE)
  BY <1>1 DEF EncryptOpen, TypeOK
<1>2. CASE EncryptOpen /\ Opens(file["path"], FALSE)
  <2>1. file["path"] \in Content \cup {NoFile}
    BY DEF TypeOK, Place
  <2> DEFINE c == Opened(file["path"], FALSE)
  <2>2. c \in Content /\ c.form = "plain" /\ c # NoFile
    BY <2>1, OpenedContent DEF Kind
  <2>3. Put("path", c)
    BY <1>2 DEF EncryptOpen, Put
  <2> HIDE DEF c
  <2>4. /\ file' \in [Place -> Content \cup {NoFile}]
        /\ file'["path"] = c /\ \A q \in Place \ {"path"} : file'[q] = file[q]
    BY <2>2, <2>3, PutFiles DEF Place
  <2> QED BY <1>2, <2>2, <2>4 DEF EncryptOpen, TypeOK, Place
<1>3. CASE EncryptExport /\ file["enc"] = NoFile
  <2>1. Put("enc", Fresh)
    BY <1>3 DEF EncryptExport, Put
  <2>2. /\ file' \in [Place -> Content \cup {NoFile}]
        /\ \A q \in Place \ {"enc"} : file'[q] = file[q]
    BY <2>1, FreshContent, PutFiles DEF Place
  <2> QED BY <1>3, <2>2 DEF EncryptExport, TypeOK, Place
<1>4. CASE EncryptExport /\ file["enc"] # NoFile
  <2>1. file["path"] \in Content
    BY <1>4 DEF EncryptExport, TypeOK, Place
  <2> DEFINE c == Copied(file["path"], TRUE)
  <2>2. c \in Content /\ c.form = "cipher"
    BY <2>1, CopiedContent DEF Kind
  <2>3. Put("enc", c)
    BY <1>4 DEF EncryptExport, Put
  <2> HIDE DEF c
  <2>4. /\ file' \in [Place -> Content \cup {NoFile}]
        /\ file'["enc"] = c /\ \A q \in Place \ {"enc"} : file'[q] = file[q]
    BY <2>2, <2>3, PutFiles DEF Place
  <2> QED BY <1>4, <2>2, <2>4, FileAssumption DEF EncryptExport, TypeOK, Place
<1> QED BY <1>1, <1>2, <1>3, <1>4

Renames == MoveBak \/ EncryptAside \/ EncryptInstall

LEMMA TypeRenamed ==
  ASSUME TypeOK,
         NEW p \in {"path", "bak", "enc"}, NEW q \in {"path", "bak", "kept"}, p # q,
         Renamed(p, q), Moved(p, q),
         serve' = serve, key' = key, backup' = backup,
         serve # "down" => p = "bak" /\ q = "kept",
         encrypt' = "idle" \/ (encrypt' = "install" /\ encrypt = "aside" /\ p = "path"),
         torn' \in BOOLEAN, UNCHANGED <<acked, asked, finished, missed>>
  PROVE  TypeOK'
<1>0. p \in Place \ {"gone"} /\ q \in Place \ {"gone", p} /\ q \notin {"enc", "dest"}
  BY DEF Place
<1>1. /\ file' \in [Place -> Content \cup {NoFile}]
      /\ \A r \in Place \ {p, q, "gone"} : file'[r] = file[r]
  BY <1>0, RenamedFiles
<1>2. at' \in {"path", "bak", "kept", "gone"}
  BY <1>1 DEF Moved, TypeOK, Place
<1>3. backup = "export" => file'[at'] # NoFile
  BY <1>0, MovedFile DEF TypeOK
<1>6. backup \in {"open", "export"} => file'["dest"] # NoFile
  BY <1>1 DEF TypeOK, Place
<1>4. serve' # "down" => encrypt' = "idle" /\ file'["path"] # NoFile
                         /\ file'["path"].form = Kind(key')
  BY <1>1 DEF TypeOK, Place
<1>5. encrypt' = "install" => file'["enc"] # NoFile /\ file'["enc"].form = "cipher"
  BY <1>1 DEF TypeOK, Place
<1>7. encrypt' \in {"idle", "install"}
  OBVIOUS
<1> QED BY <1>1, <1>2, <1>3, <1>4, <1>5, <1>6, <1>7 DEF TypeOK

LEMMA TypeRenames == TypeOK /\ Renames => TypeOK'
<1> SUFFICES ASSUME TypeOK, Renames PROVE TypeOK'
  OBVIOUS
<1>2. CASE MoveBak
  <2>1. Renamed("bak", "kept") /\ Moved("bak", "kept")
    BY <1>2 DEF MoveBak
  <2> QED BY <1>2, <2>1, TypeRenamed DEF MoveBak, TypeOK
<1>3. CASE EncryptAside
  <2>1. Renamed("path", "bak") /\ Moved("path", "bak") /\ serve = "down"
    BY <1>3 DEF EncryptAside, TypeOK
  <2> QED BY <1>3, <2>1, TypeRenamed DEF EncryptAside, TypeOK
<1>4. CASE EncryptInstall /\ Renamed("enc", "path") /\ Moved("enc", "path") /\ UNCHANGED torn
  <2>1. /\ encrypt = "install" /\ encrypt' = "idle" /\ serve = "down" /\ torn' \in BOOLEAN
        /\ UNCHANGED <<key, serve, backup, acked, asked, finished, missed>>
    BY <1>4 DEF EncryptInstall, TypeOK
  <2>2. /\ serve' = serve /\ key' = key /\ backup' = backup
        /\ UNCHANGED <<acked, asked, finished, missed>>
    BY <2>1
  <2> QED BY <1>4, <2>1, <2>2, TypeRenamed
<1>5. CASE EncryptInstall /\ Renamed("bak", "path") /\ Moved("bak", "path") /\ UNCHANGED torn
  <2>1. /\ encrypt = "install" /\ encrypt' = "idle" /\ serve = "down" /\ torn' \in BOOLEAN
        /\ UNCHANGED <<key, serve, backup, acked, asked, finished, missed>>
    BY <1>5 DEF EncryptInstall, TypeOK
  <2>2. /\ serve' = serve /\ key' = key /\ backup' = backup
        /\ UNCHANGED <<acked, asked, finished, missed>>
    BY <2>1
  <2> QED BY <1>5, <2>1, <2>2, TypeRenamed
<1>6. CASE EncryptInstall /\ torn' = TRUE /\ UNCHANGED <<file, at>>
  BY <1>6 DEF EncryptInstall, TypeOK
<1>7. EncryptInstall => \/ Renamed("enc", "path") /\ Moved("enc", "path") /\ UNCHANGED torn
                        \/ Renamed("bak", "path") /\ Moved("bak", "path") /\ UNCHANGED torn
                        \/ torn' = TRUE /\ UNCHANGED <<file, at>>
  BY DEF EncryptInstall
<1> QED BY <1>2, <1>3, <1>4, <1>5, <1>6, <1>7 DEF Renames

BackupWrites == BackupCreate \/ BackupOpen \/ BackupExport

LEMMA TypeBackup == TypeOK /\ BackupWrites => TypeOK'
<1> SUFFICES ASSUME TypeOK, BackupWrites PROVE TypeOK'
  OBVIOUS
<1>1. CASE BackupCreate
  BY <1>1, FreshContent, FileAssumption DEF BackupCreate, TypeOK, Place
<1>2. CASE BackupOpen
  <2>1. file["path"] \in Content \cup {NoFile} /\ key \in BOOLEAN
    BY DEF TypeOK, Place
  <2> DEFINE c == Opened(file["path"], key)
  <2>2. c \in Content /\ c.form = Kind(key) /\ c # NoFile
    BY <2>1, OpenedContent
  <2>3. Put("path", c)
    BY <1>2 DEF BackupOpen, Put
  <2>4. file["path"] # NoFile => file["path"].form \in {"blank", Kind(key)}
    BY <1>2 DEF BackupOpen, Opens
  <2> HIDE DEF c
  <2>5. /\ file' \in [Place -> Content \cup {NoFile}]
        /\ file'["path"] = c /\ \A q \in Place \ {"path"} : file'[q] = file[q]
    BY <2>2, <2>3, PutFiles DEF Place
  <2>6. /\ UNCHANGED <<key, serve, encrypt, acked, asked, finished, torn>>
        /\ missed' \in BOOLEAN /\ at' = "path" /\ backup' = "export"
        /\ backup = "open"
    BY <1>2 DEF BackupOpen
  <2>7. file["dest"] # NoFile
    BY <2>6 DEF TypeOK
  <2> QED BY <2>2, <2>4, <2>5, <2>6, <2>7 DEF TypeOK, Place
<1>3. CASE BackupExport
  <2>1. file[at] \in Content
    BY <1>3 DEF BackupExport, TypeOK, Place
  <2>2. Copied(file[at], FALSE) \in Content
    BY <2>1, CopiedContent
  <2>3. Put("dest", Copied(file[at], FALSE))
    BY <1>3 DEF BackupExport, Put
  <2>4. /\ file' \in [Place -> Content \cup {NoFile}]
        /\ \A q \in Place \ {"dest"} : file'[q] = file[q]
    BY <2>2, <2>3, PutFiles DEF Place
  <2> QED BY <1>3, <2>4 DEF BackupExport, TypeOK, Place
<1> QED BY <1>1, <1>2, <1>3 DEF BackupWrites

LEMMA NextCases ==
  ASSUME [Next]_vars
  PROVE  \/ Quiet \/ ServeOpen \/ ServeWrites \/ EncryptOpen \/ EncryptExport
         \/ Renames \/ BackupWrites \/ UNCHANGED vars
BY DEF Next, Operator, Serve, Encrypt, Backup, Quiet, ServeWrites, Renames, BackupWrites

LEMMA TypeNext == TypeOK /\ [Next]_vars => TypeOK'
<1> SUFFICES ASSUME TypeOK, [Next]_vars PROVE TypeOK'
  OBVIOUS
<1>1. CASE UNCHANGED vars
  BY <1>1 DEF vars, TypeOK
<1> QED BY <1>1, NextCases, TypeQuiet, TypeServe, TypeEncrypt, TypeRenames, TypeBackup

-----------------------------------------------------------------------------
(* Writes *)

\* Nothing else holds what the server has not written.
OnlyAcked == \A p \in Place : file[p] # NoFile => file[p].writes \subseteq acked

InBak == \A w \in acked : \E p \in {"path", "bak", "kept"} :
            file[p] # NoFile /\ w \in file[p].writes

InPath == (acked # {} /\ encrypt # "install" /\ ~torn)
            => file["path"] # NoFile /\ acked \subseteq file["path"].writes

\* Where the encryption is: no .bak before it sets one aside, the copy as
\* complete as what it copies, and nothing of value under the free name.
EncryptOK ==
  /\ encrypt \in {"clean", "open", "export", "aside"} => file["bak"] = NoFile
  /\ encrypt = "aside" => file["enc"].writes = file["path"].writes
  /\ encrypt = "install" =>
       /\ file["bak"] # NoFile /\ file["enc"].writes = file["bak"].writes
       /\ ~torn => acked \subseteq file["bak"].writes
       /\ file["path"] # NoFile => file["path"].writes = {}

WritesInv == TypeOK /\ OnlyAcked /\ InBak /\ InPath /\ EncryptOK

LEMMA WritesInit == Init => WritesInv
<1> SUFFICES ASSUME Init PROVE WritesInv
  OBVIOUS
<1>1. TypeOK
  BY TypeInit
<1>2. PICK first \in {NoFile, OfGo("old", {1}), OfGo("last", 1..Adopted)} :
        file = [p \in Place |-> IF p = "path" THEN first ELSE NoFile]
  BY DEF Init
<1>3. first # NoFile => first.writes = {}
  BY <1>2 DEF OfGo
<1>4. \A p \in Place : file[p] # NoFile => file[p].writes = {}
  BY <1>2, <1>3
<1> QED BY <1>1, <1>4 DEF WritesInv, OnlyAcked, InBak, InPath, EncryptOK, Init

\* A step that changes no writes and no place but the three given, and leaves
\* the encryption where it is.
LEMMA WritesQuiet == WritesInv /\ Quiet => WritesInv'
<1> SUFFICES ASSUME WritesInv, Quiet PROVE WritesInv'
  OBVIOUS
<1>0. TypeOK /\ TypeOK'
  BY TypeQuiet DEF WritesInv
<1>1. CASE Configure \/ Adopt \/ Listen \/ Stop \/ BackupBegin \/ BackupKilled
  <2>1. UNCHANGED <<file, encrypt, acked, torn>>
    BY <1>1 DEF Configure, Adopt, Listen, Stop, BackupBegin, BackupKilled
  <2> QED BY <1>0, <2>1 DEF WritesInv, OnlyAcked, InBak, InPath, EncryptOK
<1>2. CASE RemoveBak
  <2>1. /\ Put("bak", NoFile) /\ encrypt = "idle" /\ UNCHANGED <<encrypt, acked, torn>>
        /\ file["path"] # NoFile /\ file["bak"].writes \subseteq file["path"].writes
    BY <1>2 DEF RemoveBak, Put
  <2>2. file'["bak"] = NoFile /\ \A q \in Place \ {"bak"} : file'[q] = file[q]
    BY <1>0, <2>1, PutFiles DEF Place
  <2>3. OnlyAcked'
    BY <2>1, <2>2 DEF WritesInv, OnlyAcked
  <2>4. InBak'
    BY <2>1, <2>2 DEF WritesInv, InBak, Place
  <2>5. InPath' /\ EncryptOK'
    BY <2>1, <2>2 DEF WritesInv, InPath, EncryptOK, Place
  <2> QED BY <1>0, <2>3, <2>4, <2>5 DEF WritesInv
<1>3. CASE RemoveBackup \/ BackupFail
  <2>1. Put("dest", NoFile) /\ UNCHANGED <<encrypt, acked, torn>>
    BY <1>3 DEF RemoveBackup, BackupFail, Put
  <2>2. file'["dest"] = NoFile /\ \A q \in Place \ {"dest"} : file'[q] = file[q]
    BY <1>0, <2>1, PutFiles DEF Place
  <2>3. OnlyAcked'
    BY <2>1, <2>2 DEF WritesInv, OnlyAcked
  <2>4. InBak' /\ InPath' /\ EncryptOK'
    BY <2>1, <2>2 DEF WritesInv, InBak, InPath, EncryptOK, Place
  <2> QED BY <1>0, <2>3, <2>4 DEF WritesInv
<1>4. CASE EncryptBegin
  BY <1>0, <1>4 DEF EncryptBegin, WritesInv, OnlyAcked, InBak, InPath, EncryptOK
<1>5. CASE EncryptClean
  <2>1. /\ Put("enc", NoFile) /\ encrypt = "clean" /\ encrypt' = "open"
        /\ UNCHANGED <<acked, torn>>
    BY <1>5 DEF EncryptClean, Put
  <2>2. file'["enc"] = NoFile /\ \A q \in Place \ {"enc"} : file'[q] = file[q]
    BY <1>0, <2>1, PutFiles DEF Place
  <2>3. OnlyAcked'
    BY <2>1, <2>2 DEF WritesInv, OnlyAcked
  <2>4. InBak' /\ InPath' /\ EncryptOK'
    BY <2>1, <2>2 DEF WritesInv, InBak, InPath, EncryptOK, Place
  <2> QED BY <1>0, <2>3, <2>4 DEF WritesInv
<1>6. CASE EncryptEnds
  BY <1>0, <1>6 DEF EncryptEnds, WritesInv, OnlyAcked, InBak, InPath, EncryptOK
<1> QED BY <1>1, <1>2, <1>3, <1>4, <1>5, <1>6 DEF Quiet

\* A database is opened by the server, the encryption or the backup.
LEMMA WritesOpen ==
  ASSUME WritesInv, TypeOK', NEW k \in BOOLEAN, Put("path", Opened(file["path"], k)),
         UNCHANGED <<acked, torn>>,
         encrypt' = encrypt \/ (encrypt = "open" /\ encrypt' \in {"export", "idle"})
  PROVE  WritesInv'
<1> DEFINE c == Opened(file["path"], k)
<1>1. file["path"] \in Content \cup {NoFile} /\ TypeOK
  BY DEF WritesInv, TypeOK, Place
<1>2. /\ c \in Content /\ c # NoFile
      /\ file["path"] # NoFile => c.writes = file["path"].writes
      /\ file["path"] = NoFile => c.writes = {}
  BY <1>1, OpenedContent
<1> HIDE DEF c
<1>3. file'["path"] = c /\ \A q \in Place \ {"path"} : file'[q] = file[q]
  BY <1>1, <1>2, PutFiles DEF Place, c
<1>4. OnlyAcked'
  BY <1>2, <1>3 DEF WritesInv, OnlyAcked
<1>5. InBak'
  BY <1>2, <1>3 DEF WritesInv, InBak, Place
<1>6. InPath'
  BY <1>2, <1>3 DEF WritesInv, InPath
<1>7. EncryptOK'
  <2>1. encrypt = "aside" => file["path"] # NoFile
    BY <1>1 DEF TypeOK
  <2> QED BY <1>2, <1>3, <2>1 DEF WritesInv, EncryptOK, Place
<1> QED BY <1>4, <1>5, <1>6, <1>7 DEF WritesInv

\* The server writes its database; no encryption is running.
LEMMA WritesServe == WritesInv /\ ServeWrites => WritesInv'
<1> SUFFICES ASSUME WritesInv, ServeWrites PROVE WritesInv'
  OBVIOUS
<1>0. TypeOK /\ TypeOK'
  BY TypeServe DEF WritesInv
<1>1. encrypt = "idle" /\ encrypt' = "idle" /\ torn' = torn /\ file["path"] # NoFile
  BY <1>0 DEF ServeWrites, Stamp, Migrate, Commit, TypeOK
<1>2. PICK c \in Content : Put("path", c) /\ file["path"].writes \subseteq c.writes
  BY <1>0, ServeFile
<1>3. file'["path"] = c /\ \A q \in Place \ {"path"} : file'[q] = file[q]
  BY <1>0, <1>2, PutFiles DEF Place
<1>4. c # NoFile
  BY FileAssumption
<1>5. /\ acked \subseteq acked'
      /\ file'["path"].writes \subseteq file["path"].writes \cup acked'
      /\ acked' \subseteq acked \cup file'["path"].writes
  <2>1. file["path"] \in Content
    BY <1>0, ServeFile
  <2>2. CASE \E w \in Write : Commit(w)
    <3>1. PICK w \in Write : /\ file' = [file EXCEPT !["path"].writes = @ \cup {w}]
                             /\ acked' = acked \cup {w}
      BY <2>2 DEF Commit
    <3>2. file'["path"] = [file["path"] EXCEPT !.writes = @ \cup {w}]
      BY <1>0, <3>1 DEF TypeOK, Place
    <3>3. file'["path"].writes = file["path"].writes \cup {w}
      BY <2>1, <3>2, WrittenContent
    <3> QED BY <3>1, <3>3
  <2>3. CASE Stamp
    <3>1. PICK v \in 1..Adopted : file' = [file EXCEPT !["path"].stamps = @ \cup {v}]
      BY <2>3 DEF Stamp
    <3>2. file'["path"] = [file["path"] EXCEPT !.stamps = @ \cup {v}] /\ v \in Version
      BY <1>0, <3>1, VersionAssumption DEF TypeOK, Place, Version
    <3>3. file'["path"].writes = file["path"].writes
      BY <2>1, <3>2, StampedContent
    <3> QED BY <2>3, <3>3 DEF Stamp
  <2>4. CASE Migrate
    <3>1. file'["path"].writes = file["path"].writes
      <4>1. CASE UNCHANGED file
        BY <4>1
      <4>2. CASE ~UNCHANGED file
        <5>1. PICK v \in Version : file' = [file EXCEPT !["path"].stamps = @ \cup {v},
                                                         !["path"].effects = @ \cup {v}]
          BY <2>4, <4>2 DEF Migrate
        <5> DEFINE d == [file["path"] EXCEPT !.stamps = @ \cup {v}]
        <5>2. d \in Content /\ d.writes = file["path"].writes
          BY <2>1, StampedContent
        <5>3. file'["path"] = [d EXCEPT !.effects = @ \cup {v}]
          BY <1>0, <5>1 DEF TypeOK, Place
        <5> HIDE DEF d
        <5> QED BY <5>2, <5>3, StampedContent
      <4> QED BY <4>1, <4>2
    <3> QED BY <2>4, <3>1 DEF Migrate
  <2> QED BY <2>2, <2>3, <2>4 DEF ServeWrites
<1>6. OnlyAcked'
  BY <1>1, <1>3, <1>5 DEF WritesInv, OnlyAcked, Place
<1>7. InBak'
  <2> SUFFICES ASSUME NEW w \in acked'
               PROVE  \E p \in {"path", "bak", "kept"} : file'[p] # NoFile /\ w \in file'[p].writes
    BY DEF InBak
  <2>1. CASE w \in file'["path"].writes
    BY <1>3, <1>4, <2>1
  <2>2. CASE w \notin file'["path"].writes
    <3>1. w \in acked /\ w \notin file["path"].writes
      BY <1>2, <1>3, <1>5, <2>2
    <3>2. PICK p \in {"bak", "kept"} : file[p] # NoFile /\ w \in file[p].writes
      BY <3>1 DEF WritesInv, InBak
    <3> QED BY <1>3, <3>2 DEF Place
  <2> QED BY <2>1, <2>2
<1>8. InPath'
  BY <1>1, <1>2, <1>3, <1>4, <1>5 DEF WritesInv, InPath
<1>9. EncryptOK'
  BY <1>1 DEF EncryptOK
<1> QED BY <1>0, <1>6, <1>7, <1>8, <1>9 DEF WritesInv

\* The copy is written; later, what is elsewhere.
LEMMA WritesCopy ==
  ASSUME WritesInv, TypeOK', NEW p \in {"enc", "dest"}, NEW c \in Content, Put(p, c),
         c.writes \subseteq acked, UNCHANGED <<acked, torn>>,
         \/ p = "dest" /\ encrypt' = encrypt
         \/ p = "enc" /\ encrypt = "export" /\ encrypt' = "export"
         \/ /\ p = "enc" /\ encrypt = "export" /\ encrypt' = "aside"
            /\ c.writes = file["path"].writes
  PROVE  WritesInv'
<1>1. file'[p] = c /\ \A q \in Place \ {p} : file'[q] = file[q]
  BY PutFiles DEF WritesInv, Place
<1>2. OnlyAcked'
  BY <1>1 DEF WritesInv, OnlyAcked
<1>3. InBak'
  BY <1>1 DEF WritesInv, InBak, Place
<1>4. InPath'
  BY <1>1 DEF WritesInv, InPath, Place
<1>5. EncryptOK'
  BY <1>1 DEF WritesInv, EncryptOK, Place
<1> QED BY <1>2, <1>3, <1>4, <1>5 DEF WritesInv

LEMMA WritesExport == WritesInv /\ EncryptExport => WritesInv'
<1> SUFFICES ASSUME WritesInv, EncryptExport PROVE WritesInv'
  OBVIOUS
<1>0. TypeOK /\ TypeOK'
  BY TypeEncrypt DEF WritesInv
<1>1. CASE file["enc"] = NoFile
  <2>1. /\ Put("enc", Fresh) /\ encrypt = "export" /\ encrypt' = "export"
        /\ UNCHANGED <<acked, torn>>
    BY <1>1 DEF EncryptExport, Put
  <2> QED BY <1>0, <2>1, FreshContent, WritesCopy
<1>2. CASE file["enc"] # NoFile
  <2>1. /\ Put("enc", Copied(file["path"], TRUE)) /\ encrypt = "export" /\ encrypt' = "aside"
        /\ UNCHANGED <<acked, torn>>
    BY <1>2 DEF EncryptExport, Put
  <2>2. file["path"] \in Content /\ file["path"] # NoFile
    BY <1>0, <2>1 DEF TypeOK, Place
  <2>3. /\ Copied(file["path"], TRUE) \in Content
        /\ Copied(file["path"], TRUE).writes = file["path"].writes
    BY <2>2, CopiedContent
  <2>4. file["path"].writes \subseteq acked
    BY <2>2 DEF WritesInv, OnlyAcked, Place
  <2> QED BY <1>0, <2>1, <2>3, <2>4, WritesCopy
<1> QED BY <1>1, <1>2

LEMMA WritesBackup == WritesInv /\ BackupWrites => WritesInv'
<1> SUFFICES ASSUME WritesInv, BackupWrites PROVE WritesInv'
  OBVIOUS
<1>0. TypeOK /\ TypeOK'
  BY TypeBackup DEF WritesInv
<1>1. CASE BackupCreate /\ file["dest"] = NoFile
  <2>1. Put("dest", Fresh) /\ UNCHANGED <<encrypt, acked, torn>>
    BY <1>1 DEF BackupCreate, Put
  <2> QED BY <1>0, <2>1, FreshContent, WritesCopy
<1>2. CASE BackupCreate /\ file["dest"] # NoFile
  <2>1. UNCHANGED <<file, encrypt, acked, torn>>
    BY <1>2 DEF BackupCreate
  <2> QED BY <1>0, <2>1 DEF WritesInv, OnlyAcked, InBak, InPath, EncryptOK
<1>3. CASE BackupOpen
  <2>1. Put("path", Opened(file["path"], key)) /\ UNCHANGED <<encrypt, acked, torn>>
    BY <1>3 DEF BackupOpen, Put
  <2> QED BY <1>0, <2>1, WritesOpen DEF TypeOK
<1>4. CASE BackupExport
  <2>1. Put("dest", Copied(file[at], FALSE)) /\ UNCHANGED <<encrypt, acked, torn>>
    BY <1>4 DEF BackupExport, Put
  <2>2. at \in Place /\ file[at] \in Content /\ file[at] # NoFile
    BY <1>0, <1>4 DEF BackupExport, TypeOK, Place
  <2>3. /\ Copied(file[at], FALSE) \in Content
        /\ Copied(file[at], FALSE).writes = file[at].writes
    BY <2>2, CopiedContent
  <2>4. file[at].writes \subseteq acked
    BY <2>2 DEF WritesInv, OnlyAcked
  <2> QED BY <1>0, <2>1, <2>3, <2>4, WritesCopy
<1> QED BY <1>1, <1>2, <1>3, <1>4 DEF BackupWrites

LEMMA WritesRenames == WritesInv /\ Renames => WritesInv'
<1> SUFFICES ASSUME WritesInv, Renames PROVE WritesInv'
  OBVIOUS
<1>0. TypeOK /\ TypeOK'
  BY TypeRenames DEF WritesInv
\* A rename brings nothing that was not there.
<1>1. ASSUME NEW p \in Place \ {"gone"}, NEW q \in Place \ {"gone", p}, Renamed(p, q),
             acked' = acked
      PROVE  OnlyAcked'
  <2>1. \A r \in Place : file'[r] = NoFile \/ \E s \in Place : file'[r] = file[s]
    BY <1>0, <1>1, RenamedFiles
  <2> QED BY <1>1, <2>1 DEF WritesInv, OnlyAcked
<1>2. CASE MoveBak
  <2>1. /\ Renamed("bak", "kept") /\ encrypt = "idle" /\ file["kept"] = NoFile
        /\ UNCHANGED <<encrypt, acked, torn>>
    BY <1>2 DEF MoveBak
  <2>2. file'["kept"] = file["bak"] /\ file'["bak"] = NoFile /\ file'["path"] = file["path"]
    BY <1>0, <2>1, RenamedFiles DEF Place
  <2>3. OnlyAcked'
    BY <1>1, <2>1 DEF Place
  <2>4. InBak' /\ InPath' /\ EncryptOK'
    BY <2>1, <2>2 DEF WritesInv, InBak, InPath, EncryptOK
  <2> QED BY <1>0, <2>3, <2>4 DEF WritesInv
<1>3. CASE EncryptAside
  <2>1. /\ Renamed("path", "bak") /\ encrypt = "aside" /\ encrypt' = "install"
        /\ UNCHANGED <<acked, torn>>
    BY <1>3 DEF EncryptAside
  <2>2. /\ file'["bak"] = file["path"] /\ file'["path"] = NoFile
        /\ file'["kept"] = file["kept"] /\ file'["enc"] = file["enc"]
    BY <1>0, <2>1, RenamedFiles DEF Place
  <2>3. file["path"] # NoFile /\ file["bak"] = NoFile
        /\ file["enc"].writes = file["path"].writes
    BY <1>0, <2>1 DEF WritesInv, TypeOK, EncryptOK
  <2>4. OnlyAcked'
    BY <1>1, <2>1 DEF Place
  <2>5. InBak' /\ InPath'
    BY <2>1, <2>2, <2>3 DEF WritesInv, InBak, InPath
  <2>6. EncryptOK'
    BY <2>1, <2>2, <2>3 DEF WritesInv, InPath, EncryptOK
  <2> QED BY <1>0, <2>4, <2>5, <2>6 DEF WritesInv
<1>4. ASSUME encrypt = "install", encrypt' = "idle", UNCHANGED <<acked, torn>>,
             Renamed("enc", "path") \/ Renamed("bak", "path")
      PROVE  WritesInv'
  <2>1. /\ file["bak"] # NoFile /\ file["enc"] # NoFile
        /\ file["enc"].writes = file["bak"].writes
        /\ ~torn => acked \subseteq file["bak"].writes
        /\ file["path"] # NoFile => file["path"].writes = {}
    BY <1>0, <1>4 DEF WritesInv, EncryptOK, TypeOK
  <2>2. /\ file'["path"] # NoFile /\ file'["path"].writes = file["bak"].writes
        /\ file'["kept"] = file["kept"]
    <3>1. CASE Renamed("enc", "path")
      BY <1>0, <2>1, <3>1, RenamedFiles DEF Place
    <3>2. CASE Renamed("bak", "path")
      BY <1>0, <2>1, <3>2, RenamedFiles DEF Place
    <3> QED BY <1>4, <3>1, <3>2
  <2>3. OnlyAcked'
    BY <1>1, <1>4 DEF Place
  <2>4. InBak'
    BY <1>4, <2>1, <2>2 DEF WritesInv, InBak
  <2>5. InPath' /\ EncryptOK'
    BY <1>4, <2>1, <2>2 DEF InPath, EncryptOK
  <2> QED BY <1>0, <2>3, <2>4, <2>5 DEF WritesInv
<1>5. CASE EncryptInstall /\ (Renamed("enc", "path") \/ Renamed("bak", "path")) /\ UNCHANGED torn
  BY <1>4, <1>5 DEF EncryptInstall
<1>6. CASE EncryptInstall /\ torn' = TRUE /\ UNCHANGED <<file, at>>
  BY <1>0, <1>6 DEF EncryptInstall, WritesInv, OnlyAcked, InBak, InPath, EncryptOK
<1>7. EncryptInstall => \/ (Renamed("enc", "path") \/ Renamed("bak", "path")) /\ UNCHANGED torn
                        \/ torn' = TRUE /\ UNCHANGED <<file, at>>
  BY DEF EncryptInstall
<1> QED BY <1>2, <1>3, <1>5, <1>6, <1>7 DEF Renames

LEMMA WritesNext == WritesInv /\ [Next]_vars => WritesInv'
<1> SUFFICES ASSUME WritesInv, [Next]_vars PROVE WritesInv'
  OBVIOUS
<1>0. TypeOK /\ TypeOK'
  BY TypeNext DEF WritesInv
<1>1. CASE UNCHANGED vars
  BY <1>0, <1>1 DEF vars, WritesInv, OnlyAcked, InBak, InPath, EncryptOK
<1>2. CASE ServeOpen
  <2>1. Put("path", Opened(file["path"], key)) /\ UNCHANGED <<encrypt, acked, torn>>
    BY <1>2 DEF ServeOpen, Put
  <2> QED BY <1>0, <2>1, WritesOpen DEF TypeOK
<1>3. CASE EncryptOpen /\ Opens(file["path"], FALSE)
  <2>1. /\ Put("path", Opened(file["path"], FALSE)) /\ UNCHANGED <<acked, torn>>
        /\ encrypt = "open" /\ encrypt' = "export"
    BY <1>3 DEF EncryptOpen, Put
  <2> QED BY <1>0, <2>1, WritesOpen
<1>4. CASE EncryptOpen /\ ~Opens(file["path"], FALSE)
  BY <1>0, <1>4 DEF EncryptOpen, WritesInv, OnlyAcked, InBak, InPath, EncryptOK
<1> QED BY <1>1, <1>2, <1>3, <1>4, NextCases, WritesQuiet, WritesServe, WritesExport,
           WritesRenames, WritesBackup

-----------------------------------------------------------------------------
(* The backup *)

\* What the backup has open holds what it was asked for; what it has finished
\* holds that too.
BackupInv ==
  /\ finished => backup = "idle" /\ file["dest"] # NoFile /\ file["dest"].form = "plain"
  /\ (backup = "export" /\ ~missed /\ ~torn) => asked \subseteq file[at].writes
  /\ (finished /\ ~missed /\ ~torn) => asked \subseteq file["dest"].writes

\* The steps of all but the backup.
Others == \/ Configure \/ RemoveBak \/ Adopt \/ Listen \/ Stop
          \/ EncryptBegin \/ EncryptClean \/ EncryptEnds
          \/ ServeOpen \/ ServeWrites \/ EncryptOpen \/ EncryptExport \/ Renames

\* They leave the destination alone, and nothing is lost from the open file.
LEMMA OthersKeep ==
  ASSUME WritesInv, Others
  PROVE  /\ UNCHANGED <<backup, asked, finished, missed>> /\ (torn => torn')
         /\ file'["dest"] = file["dest"]
         /\ backup = "export" => file[at].writes \subseteq file'[at'].writes
<1>0. TypeOK /\ at \in Place /\ at \notin {"enc", "dest"}
  BY DEF WritesInv, TypeOK, Place
<1> DEFINE Goal == /\ UNCHANGED <<backup, asked, finished, missed>> /\ (torn => torn')
                   /\ file'["dest"] = file["dest"]
                   /\ backup = "export" => file[at].writes \subseteq file'[at'].writes
<1>1. CASE Configure \/ Adopt \/ Listen \/ Stop \/ EncryptBegin \/ EncryptEnds
  <2>1. UNCHANGED <<file, at, backup, asked, finished, missed>>
    BY <1>1 DEF Configure, Adopt, Listen, Stop, EncryptBegin, EncryptEnds
  <2>2. torn' = torn \/ torn' = (torn \/ encrypt = "install")
    BY <1>1 DEF Configure, Adopt, Listen, Stop, EncryptBegin, EncryptEnds
  <2>3. torn \in BOOLEAN
    BY <1>0 DEF TypeOK
  <2>4. torn => torn'
    BY <2>2, <2>3
  <2> QED BY <2>1, <2>4
<1>2. CASE RemoveBak
  <2>1. /\ Put("bak", NoFile) /\ backup = "idle"
        /\ UNCHANGED <<backup, asked, finished, missed, torn>>
    BY <1>2 DEF RemoveBak, Put
  <2>2. file'["dest"] = file["dest"]
    BY <1>0, <2>1, PutFiles DEF Place
  <2> QED BY <2>1, <2>2
<1>3. CASE EncryptClean
  <2>1. Put("enc", NoFile) /\ UNCHANGED <<at, backup, asked, finished, missed, torn>>
    BY <1>3 DEF EncryptClean, Put
  <2>2. \A q \in Place \ {"enc"} : file'[q] = file[q]
    BY <1>0, <2>1, PutFiles DEF Place
  <2> QED BY <1>0, <2>1, <2>2 DEF Place
<1>4. ASSUME NEW c \in Content, Put("path", c),
             UNCHANGED <<at, backup, asked, finished, missed, torn>>,
             file["path"] # NoFile => file["path"].writes \subseteq c.writes
      PROVE  Goal
  <2>1. file'["path"] = c /\ \A q \in Place \ {"path"} : file'[q] = file[q]
    BY <1>0, <1>4, PutFiles DEF Place
  <2>2. backup = "export" => file[at] # NoFile
    BY <1>0 DEF TypeOK
  <2> QED BY <1>0, <1>4, <2>1, <2>2 DEF Place
<1>5. CASE ServeOpen
  <2>1. /\ Put("path", Opened(file["path"], key))
        /\ UNCHANGED <<at, backup, asked, finished, missed, torn>>
    BY <1>5 DEF ServeOpen, Put
  <2>2. file["path"] \in Content \cup {NoFile} /\ key \in BOOLEAN
    BY <1>0 DEF TypeOK, Place
  <2> QED BY <1>4, <2>1, <2>2, OpenedContent
<1>6. CASE EncryptOpen /\ Opens(file["path"], FALSE)
  <2>1. /\ Put("path", Opened(file["path"], FALSE))
        /\ UNCHANGED <<at, backup, asked, finished, missed, torn>>
    BY <1>6 DEF EncryptOpen, Put
  <2>2. file["path"] \in Content \cup {NoFile}
    BY <1>0 DEF TypeOK, Place
  <2> QED BY <1>4, <2>1, <2>2, OpenedContent
<1>7. CASE EncryptOpen /\ ~Opens(file["path"], FALSE)
  BY <1>7 DEF EncryptOpen
<1>8. CASE ServeWrites
  <2>1. PICK c \in Content : Put("path", c) /\ file["path"].writes \subseteq c.writes
    BY <1>0, <1>8, ServeFile
  <2>2. UNCHANGED <<at, backup, asked, finished, missed, torn>>
    BY <1>8 DEF ServeWrites, Stamp, Migrate, Commit
  <2> QED BY <1>4, <2>1, <2>2
<1>9. CASE EncryptExport
  <2>1. PICK c : Put("enc", c)
    BY <1>9 DEF EncryptExport, Put
  <2>2. \A q \in Place \ {"enc"} : file'[q] = file[q]
    BY <1>0, <2>1 DEF Put, TypeOK
  <2>3. UNCHANGED <<at, backup, asked, finished, missed, torn>>
    BY <1>9 DEF EncryptExport
  <2> QED BY <1>0, <2>2, <2>3 DEF Place
<1>10. ASSUME NEW p \in Place \ {"gone"}, NEW q \in Place \ {"gone", p}, p # "dest",
              q \notin {"enc", "dest"}, Renamed(p, q), Moved(p, q),
              UNCHANGED <<backup, asked, finished, missed>>, torn => torn'
       PROVE  Goal
  <2>1. file'["dest"] = file["dest"]
    BY <1>0, <1>10, RenamedFiles DEF Place
  <2>2. backup = "export" => file'[at'] = file[at]
    BY <1>0, <1>10, MovedFile
  <2> QED BY <1>10, <2>1, <2>2
<1>11. CASE MoveBak
  BY <1>10, <1>11 DEF MoveBak, Place
<1>12. CASE EncryptAside
  BY <1>10, <1>12 DEF EncryptAside, Place
<1>13. CASE EncryptInstall
  <2>1. UNCHANGED <<backup, asked, finished, missed>>
    BY <1>13 DEF EncryptInstall
  <2>2. CASE Renamed("enc", "path") /\ Moved("enc", "path") /\ UNCHANGED torn
    BY <1>10, <2>1, <2>2 DEF Place
  <2>3. CASE Renamed("bak", "path") /\ Moved("bak", "path") /\ UNCHANGED torn
    BY <1>10, <2>1, <2>3 DEF Place
  <2>4. CASE torn' = TRUE /\ UNCHANGED <<file, at>>
    BY <2>1, <2>4
  <2> QED BY <1>13, <2>2, <2>3, <2>4 DEF EncryptInstall
<1> QED BY <1>1, <1>2, <1>3, <1>5, <1>6, <1>7, <1>8, <1>9, <1>11, <1>12, <1>13
        DEF Others, Renames

LEMMA BackupNext == WritesInv /\ BackupInv /\ [Next]_vars => BackupInv'
<1> SUFFICES ASSUME WritesInv, BackupInv, [Next]_vars PROVE BackupInv'
  OBVIOUS
<1>0. TypeOK /\ TypeOK' /\ WritesInv'
  BY TypeNext, WritesNext DEF WritesInv
<1>1. CASE Others
  BY <1>0, <1>1, OthersKeep DEF BackupInv, TypeOK
<1>2. CASE UNCHANGED vars
  BY <1>2 DEF vars, BackupInv
<1>3. CASE RemoveBackup
  BY <1>3 DEF RemoveBackup, BackupInv
<1>4. CASE BackupBegin \/ BackupKilled \/ BackupCreate
  BY <1>4 DEF BackupBegin, BackupKilled, BackupCreate, BackupInv
<1>5. CASE BackupFail
  BY <1>5 DEF BackupFail, BackupInv
<1>6. CASE BackupOpen
  <2>1. /\ Put("path", Opened(file["path"], key)) /\ at' = "path" /\ backup' = "export"
        /\ backup = "open" /\ missed' = (encrypt = "install")
        /\ UNCHANGED <<acked, asked, finished, torn>>
    BY <1>6 DEF BackupOpen, Put
  <2>2. file["path"] \in Content \cup {NoFile} /\ key \in BOOLEAN
    BY <1>0 DEF TypeOK, Place
  <2>3. file["path"] # NoFile => Opened(file["path"], key).writes = file["path"].writes
    BY <2>2, OpenedContent
  <2>4. file'["path"] = Opened(file["path"], key)
    BY <1>0, <2>1 DEF Put, TypeOK, Place
  <2>5. asked \subseteq acked
    BY <1>0 DEF TypeOK
  <2>6. (~missed' /\ ~torn') => asked \subseteq file'["path"].writes
    BY <2>1, <2>3, <2>4, <2>5 DEF WritesInv, InPath
  <2> QED BY <2>1, <2>6 DEF BackupInv
<1>7. CASE BackupExport
  <2>1. /\ Put("dest", Copied(file[at], FALSE)) /\ backup = "export" /\ backup' = "idle"
        /\ UNCHANGED <<asked, missed, torn>>
    BY <1>7 DEF BackupExport, Put
  <2>2. at \in Place /\ file[at] \in Content
    BY <1>0, <2>1 DEF TypeOK, Place
  <2>3. /\ Copied(file[at], FALSE) \in Content /\ Copied(file[at], FALSE).form = "plain"
        /\ Copied(file[at], FALSE).writes = file[at].writes
    BY <2>2, CopiedContent DEF Kind
  <2>4. file'["dest"] = Copied(file[at], FALSE)
    BY <1>0, <2>1 DEF Put, TypeOK, Place
  <2>5. file'["dest"] # NoFile
    BY <2>3, <2>4, FileAssumption
  <2> QED BY <2>1, <2>3, <2>4, <2>5 DEF BackupInv
<1>8. Next => \/ Others \/ RemoveBackup \/ BackupBegin \/ BackupKilled \/ BackupCreate
              \/ BackupFail \/ BackupOpen \/ BackupExport
  BY DEF Next, Operator, Serve, Encrypt, Backup, Others, ServeWrites, Renames
<1> QED BY <1>1, <1>2, <1>3, <1>4, <1>5, <1>6, <1>7, <1>8

-----------------------------------------------------------------------------
(* Adoption *)

\* What a database went through: the effects beyond the recorded migrations are
\* the Go server's, and its first migration is recorded first.
Adoptable(c) ==
  /\ c.goose = "none" => c.effects \subseteq c.stamps
  /\ c.goose = "last" => /\ c.effects \subseteq (1..Adopted) \cup c.stamps
                         /\ c.stamps # {} => 1 \in c.stamps

AdoptInv ==
  /\ \A p \in Place : file[p] # NoFile => Adoptable(file[p])
  /\ (serve = "migrate" /\ file["path"].goose = "last") => 1 \in file["path"].stamps

LEMMA AdoptInit == Init => AdoptInv
<1> SUFFICES ASSUME Init PROVE AdoptInv
  OBVIOUS
<1>1. PICK first \in {NoFile, OfGo("old", {1}), OfGo("last", 1..Adopted)} :
        file = [p \in Place |-> IF p = "path" THEN first ELSE NoFile]
  BY DEF Init
<1>2. first # NoFile => Adoptable(first)
  <2>1. Adoptable(OfGo("old", {1}))
    BY DEF OfGo, Adoptable
  <2>2. Adoptable(OfGo("last", 1..Adopted))
    BY DEF OfGo, Adoptable
  <2> QED BY <1>1, <2>1, <2>2
<1>3. serve = "down"
  BY DEF Init
<1> QED BY <1>1, <1>2, <1>3 DEF AdoptInv

LEMMA AdoptableSame ==
  ASSUME NEW c, NEW d, Adoptable(c), d.goose = c.goose, d.effects = c.effects,
         d.stamps = c.stamps
  PROVE  Adoptable(d)
BY DEF Adoptable

\* A file is put somewhere, and the server is not about to migrate it.
LEMMA AdoptPut ==
  ASSUME TypeOK, AdoptInv, NEW p \in Place, NEW c \in Content \cup {NoFile}, Put(p, c),
         c # NoFile => Adoptable(c),
         \/ serve' # "migrate"
         \/ p # "path" /\ serve' = serve
         \/ p = "path" /\ (c.goose = "last" => 1 \in c.stamps)
  PROVE  AdoptInv'
<1>1. file'[p] = c /\ \A q \in Place \ {p} : file'[q] = file[q]
  BY PutFiles
<1>2. \A q \in Place : file'[q] # NoFile => Adoptable(file'[q])
  BY <1>1 DEF AdoptInv
<1>3. (serve' = "migrate" /\ file'["path"].goose = "last") => 1 \in file'["path"].stamps
  BY <1>1 DEF AdoptInv, Place
<1> QED BY <1>2, <1>3 DEF AdoptInv

\* Opening and copying keep what is recorded.
LEMMA AdoptOpened ==
  ASSUME TypeOK, AdoptInv, NEW k \in BOOLEAN, Put("path", Opened(file["path"], k)),
         serve' = serve \/ serve' # "migrate", serve = "migrate" => file["path"] # NoFile
  PROVE  AdoptInv'
<1> DEFINE c == Opened(file["path"], k)
<1>1. file["path"] \in Content \cup {NoFile}
  BY DEF TypeOK, Place
<1>2. /\ c \in Content
      /\ file["path"] # NoFile => /\ c.stamps = file["path"].stamps
                                  /\ c.effects = file["path"].effects
                                  /\ c.goose = file["path"].goose
      /\ file["path"] = NoFile => c.effects = {} /\ c.goose = "none"
  BY <1>1, OpenedContent
<1> HIDE DEF c
<1>3. Adoptable(c)
  <2>1. CASE file["path"] = NoFile
    BY <1>2, <2>1 DEF Adoptable
  <2>2. CASE file["path"] # NoFile
    <3>1. Adoptable(file["path"])
      BY <2>2 DEF AdoptInv, Place
    <3> QED BY <1>2, <2>2, <3>1, AdoptableSame
  <2> QED BY <2>1, <2>2
<1>4. serve' = "migrate" => (c.goose = "last" => 1 \in c.stamps)
  BY <1>2 DEF AdoptInv
<1> QED BY <1>2, <1>3, <1>4, AdoptPut DEF c, Place

LEMMA AdoptCopied ==
  ASSUME TypeOK, AdoptInv, NEW p \in {"enc", "dest"}, NEW q \in Place, file[q] # NoFile,
         NEW k \in BOOLEAN, Put(p, Copied(file[q], k)), serve' = serve
  PROVE  AdoptInv'
<1> DEFINE c == Copied(file[q], k)
<1>1. file[q] \in Content /\ Adoptable(file[q])
  BY DEF TypeOK, AdoptInv
<1>2. c \in Content /\ c.stamps = file[q].stamps /\ c.effects = file[q].effects
      /\ c.goose = file[q].goose
  BY <1>1, CopiedContent
<1> HIDE DEF c
<1>3. Adoptable(c)
  BY <1>1, <1>2, AdoptableSame
<1> QED BY <1>2, <1>3, AdoptPut DEF c, Place

LEMMA AdoptRenamed ==
  ASSUME TypeOK, AdoptInv, NEW p \in Place \ {"gone"}, NEW q \in Place \ {"gone", p},
         Renamed(p, q), serve' = serve, serve # "down" => p # "path" /\ q # "path"
  PROVE  AdoptInv'
<1>1. /\ \A r \in Place : file'[r] = NoFile \/ \E s \in Place : file'[r] = file[s]
      /\ serve # "down" => file'["path"] = file["path"]
  BY RenamedFiles DEF Place
<1>2. \A r \in Place : file'[r] # NoFile => Adoptable(file'[r])
  BY <1>1 DEF AdoptInv
<1>3. (serve' = "migrate" /\ file'["path"].goose = "last") => 1 \in file'["path"].stamps
  BY <1>1 DEF AdoptInv
<1> QED BY <1>2, <1>3 DEF AdoptInv

\* The server records, migrates and writes.
LEMMA AdoptServe ==
  ASSUME WritesInv, AdoptInv, ServeWrites
  PROVE  AdoptInv'
<1>0. /\ TypeOK /\ file["path"] \in Content /\ Adoptable(file["path"])
      /\ file["path"] # NoFile
  <2>1. TypeOK /\ file["path"] \in Content
    BY ServeFile DEF WritesInv
  <2> QED BY <2>1, FileAssumption DEF AdoptInv, Place
<1>1. CASE Stamp
  <2>1. PICK v \in 1..Adopted :
          /\ \A u \in 1..Adopted : u < v => u \in file["path"].stamps
          /\ file' = [file EXCEPT !["path"].stamps = @ \cup {v}]
    BY <1>1 DEF Stamp
  <2> DEFINE c == [file["path"] EXCEPT !.stamps = @ \cup {v}]
  <2>2. v \in Version /\ v \in Int
    BY VersionAssumption DEF Version
  <2>3. /\ c \in Content /\ c.stamps = file["path"].stamps \cup {v}
        /\ c.effects = file["path"].effects /\ c.goose = file["path"].goose
    BY <1>0, <2>2, StampedContent
  <2>4. Put("path", c)
    BY <2>1 DEF Put
  <2> HIDE DEF c
  <2>5. 1 \in c.stamps
    <3>1. v = 1 \/ (1 < v /\ 1 \in 1..Adopted)
      BY VersionAssumption
    <3> QED BY <2>1, <2>3, <3>1
  <2>6. Adoptable(c)
    BY <1>0, <2>3, <2>5 DEF Adoptable
  <2> QED BY <1>0, <2>3, <2>4, <2>5, <2>6, AdoptPut DEF Place
<1>2. CASE Migrate /\ UNCHANGED file
  <2>1. serve' = "down" \/ serve' = serve
    BY <1>2 DEF Migrate
  <2> QED BY <1>0, <1>2, <2>1 DEF AdoptInv
<1>3. CASE Migrate /\ ~UNCHANGED file
  <2>1. PICK v \in Version : /\ file' = [file EXCEPT !["path"].stamps = @ \cup {v},
                                                     !["path"].effects = @ \cup {v}]
                             /\ serve' = serve /\ serve = "migrate"
    BY <1>3 DEF Migrate
  <2> DEFINE b == [file["path"] EXCEPT !.stamps = @ \cup {v}]
             c == [b EXCEPT !.effects = @ \cup {v}]
  <2>2. /\ b \in Content /\ b.stamps = file["path"].stamps \cup {v}
        /\ b.effects = file["path"].effects /\ b.goose = file["path"].goose
    BY <1>0, StampedContent
  <2>3. Put("path", c)
    BY <1>0, <2>1 DEF Put, TypeOK, Place
  <2> HIDE DEF b
  <2>4. /\ c \in Content /\ c.stamps = file["path"].stamps \cup {v}
        /\ c.effects = file["path"].effects \cup {v} /\ c.goose = file["path"].goose
    <3>1. v \in Version
      BY <2>1
    <3>2. /\ c \in Content /\ c.stamps = b.stamps
          /\ c.effects = b.effects \cup {v} /\ c.goose = b.goose
      BY <2>2, <3>1, StampedContent
    <3> QED BY <2>2, <3>2
  <2> HIDE DEF c
  <2>5. c.goose = "last" => 1 \in file["path"].stamps
    BY <2>1, <2>4 DEF AdoptInv
  <2>6. Adoptable(c)
    BY <1>0, <2>4, <2>5 DEF Adoptable
  <2> QED BY <1>0, <2>3, <2>4, <2>5, <2>6, AdoptPut DEF Place
<1>4. CASE \E w \in Write : Commit(w)
  <2>1. PICK w \in Write : /\ file' = [file EXCEPT !["path"].writes = @ \cup {w}]
                           /\ serve = "up" /\ serve' = serve
    BY <1>4 DEF Commit
  <2> DEFINE c == [file["path"] EXCEPT !.writes = @ \cup {w}]
  <2>2. /\ c \in Content /\ c.stamps = file["path"].stamps
        /\ c.effects = file["path"].effects /\ c.goose = file["path"].goose
    BY <1>0, WrittenContent
  <2>3. Put("path", c)
    BY <2>1 DEF Put
  <2> HIDE DEF c
  <2>4. Adoptable(c)
    BY <1>0, <2>2, AdoptableSame
  <2> QED BY <1>0, <2>1, <2>2, <2>3, <2>4, AdoptPut DEF Place
<1> QED BY <1>1, <1>2, <1>3, <1>4 DEF ServeWrites

LEMMA AdoptNext == WritesInv /\ AdoptInv /\ [Next]_vars => AdoptInv'
<1> SUFFICES ASSUME WritesInv, AdoptInv, [Next]_vars PROVE AdoptInv'
  OBVIOUS
<1>0. TypeOK
  BY DEF WritesInv
<1>1. CASE UNCHANGED vars
  BY <1>1 DEF vars, AdoptInv
<1>2. CASE Adopt
  <2>1. serve = "adopt" /\ file["path"] # NoFile
    BY <1>0, <1>2 DEF Adopt, TypeOK
  <2>2. Adoptable(file["path"])
    BY <2>1 DEF AdoptInv, Place
  <2> QED BY <1>2, <2>1, <2>2 DEF Adopt, Adopts, Adoptable, AdoptInv
<1>3. CASE \/ Configure \/ Listen \/ Stop \/ EncryptBegin \/ EncryptEnds
           \/ BackupBegin \/ BackupKilled
  <2>1. UNCHANGED file /\ (serve' = serve \/ serve' \in {"up", "down"})
    BY <1>3 DEF Configure, Listen, Stop, EncryptBegin, EncryptEnds, BackupBegin, BackupKilled
  <2> QED BY <2>1 DEF AdoptInv
<1>4. CASE RemoveBak \/ RemoveBackup \/ BackupFail \/ EncryptClean
  <2>1. PICK p \in {"bak", "dest", "enc"} : Put(p, NoFile)
    BY <1>4 DEF RemoveBak, RemoveBackup, BackupFail, EncryptClean, Put
  <2>2. serve' = serve
    BY <1>4 DEF RemoveBak, RemoveBackup, BackupFail, EncryptClean
  <2> QED BY <1>0, <2>1, <2>2, AdoptPut DEF Place
<1>5. CASE ServeOpen
  <2>1. Put("path", Opened(file["path"], key)) /\ serve' = "adopt" /\ serve = "down"
    BY <1>5 DEF ServeOpen, Put
  <2> QED BY <1>0, <2>1, AdoptOpened DEF TypeOK
<1>6. CASE EncryptOpen /\ Opens(file["path"], FALSE)
  <2>1. Put("path", Opened(file["path"], FALSE)) /\ serve' = serve
    BY <1>6 DEF EncryptOpen, Put
  <2>2. serve = "migrate" => file["path"] # NoFile
    BY <1>0 DEF TypeOK
  <2> QED BY <1>0, <2>1, <2>2, AdoptOpened
<1>7. CASE EncryptOpen /\ ~Opens(file["path"], FALSE)
  BY <1>7 DEF EncryptOpen, AdoptInv
<1>8. CASE BackupOpen
  <2>1. Put("path", Opened(file["path"], key)) /\ serve' = serve
    BY <1>8 DEF BackupOpen, Put
  <2>2. key \in BOOLEAN /\ (serve = "migrate" => file["path"] # NoFile)
    BY <1>0 DEF TypeOK
  <2> QED BY <1>0, <2>1, <2>2, AdoptOpened
<1>9. ASSUME NEW p \in {"enc", "dest"}, Put(p, Fresh), serve' = serve
      PROVE  AdoptInv'
  <2>1. Adoptable(Fresh)
    BY FreshContent DEF Adoptable
  <2> QED BY <1>0, <1>9, <2>1, FreshContent, AdoptPut DEF Place
<1>10. CASE EncryptExport /\ file["enc"] = NoFile
  BY <1>9, <1>10 DEF EncryptExport, Put
<1>11. CASE EncryptExport /\ file["enc"] # NoFile
  <2>1. Put("enc", Copied(file["path"], TRUE)) /\ serve' = serve /\ file["path"] # NoFile
    BY <1>0, <1>11 DEF EncryptExport, Put, TypeOK
  <2> QED BY <1>0, <2>1, AdoptCopied DEF Place
<1>12. CASE BackupCreate
  <2>1. serve' = serve /\ (UNCHANGED file \/ Put("dest", Fresh))
    BY <1>12 DEF BackupCreate, Put
  <2>2. CASE UNCHANGED file
    BY <2>1, <2>2 DEF AdoptInv
  <2> QED BY <1>9, <2>1, <2>2
<1>13. CASE BackupExport
  <2>1. Put("dest", Copied(file[at], FALSE)) /\ serve' = serve
    BY <1>13 DEF BackupExport, Put
  <2>2. at \in Place /\ file[at] # NoFile
    BY <1>0, <1>13 DEF BackupExport, TypeOK, Place
  <2> QED BY <1>0, <2>1, <2>2, AdoptCopied
<1>14. CASE MoveBak
  <2>1. Renamed("bak", "kept") /\ serve' = serve
    BY <1>14 DEF MoveBak
  <2> QED BY <1>0, <2>1, AdoptRenamed DEF Place
<1>15. CASE EncryptAside
  <2>1. Renamed("path", "bak") /\ serve' = serve /\ serve = "down"
    BY <1>0, <1>15 DEF EncryptAside, TypeOK
  <2> QED BY <1>0, <2>1, AdoptRenamed DEF Place
<1>16. CASE EncryptInstall
  <2>1. /\ serve' = serve /\ serve = "down"
        /\ Renamed("enc", "path") \/ Renamed("bak", "path") \/ UNCHANGED file
    BY <1>0, <1>16 DEF EncryptInstall, TypeOK
  <2>2. CASE UNCHANGED file
    BY <2>1, <2>2 DEF AdoptInv
  <2>3. CASE Renamed("enc", "path")
    BY <1>0, <2>1, <2>3, AdoptRenamed DEF Place
  <2>4. CASE Renamed("bak", "path")
    BY <1>0, <2>1, <2>4, AdoptRenamed DEF Place
  <2> QED BY <2>1, <2>2, <2>3, <2>4
<1>17. CASE ServeWrites
  BY <1>17, AdoptServe
<1> QED BY <1>1, <1>2, <1>3, <1>4, <1>5, <1>6, <1>7, <1>8, <1>10, <1>11, <1>12, <1>13,
           <1>14, <1>15, <1>16, <1>17, NextCases DEF Quiet, Renames, BackupWrites

-----------------------------------------------------------------------------
(* The theorems *)

IInv == WritesInv /\ BackupInv /\ AdoptInv

LEMMA InitIInv == Init => IInv
<1>1. Init => BackupInv
  BY DEF Init, BackupInv
<1> QED BY <1>1, WritesInit, AdoptInit DEF IInv

LEMMA Invariance == Spec => []IInv
<1>1. IInv /\ [Next]_vars => IInv'
  BY WritesNext, BackupNext, AdoptNext DEF IInv
<1> QED BY <1>1, InitIInv, PTL DEF Spec

LEMMA IInvWritesKept == IInv => WritesKept
BY DEF IInv, WritesInv, InBak, InPath, WritesKept

LEMMA IInvSnapshot == IInv => BackupIsSnapshot
BY DEF IInv, WritesInv, OnlyAcked, BackupInv, BackupIsSnapshot, Place

LEMMA IInvNoneTwice == IInv => NoneTwice
<1> SUFFICES ASSUME IInv, serve = "migrate", file["path"].goose # "old",
                    NEW v \in Version \ file["path"].stamps
             PROVE  ~Clashes(v, file["path"])
  BY DEF NoneTwice
<1>1. file["path"] # NoFile /\ file["path"] \in Content
  BY DEF IInv, WritesInv, TypeOK, Place
<1>2. Adoptable(file["path"]) /\ file["path"].goose \in {"none", "last"}
  BY <1>1 DEF IInv, AdoptInv, Content, Place
<1>3. CASE v \notin file["path"].effects
  BY <1>3 DEF Clashes
<1>4. CASE v \in file["path"].effects
  <2>1. file["path"].goose = "last" /\ v \in 1..Adopted
    BY <1>2, <1>4 DEF Adoptable
  <2>2. v # 1
    BY <2>1 DEF IInv, AdoptInv
  <2>3. v \in 2..Adopted
    BY <2>1, <2>2, VersionAssumption
  <2> QED BY <2>3, VersionAssumption DEF Clashes
<1> QED BY <1>3, <1>4

\* The files and the programs' locals keep their types, and a program that has
\* opened a file has one of the kind it opened (open, encrypt_existing).
THEOREM TypeCorrect == Spec => []TypeOK
BY Invariance, PTL DEF IInv, WritesInv

\* No write of the server is lost, whichever command is killed where
\* (encrypt_existing, open).
THEOREM NothingLost == Spec => []WritesKept
BY Invariance, IInvWritesKept, PTL

\* A backup that succeeded is a snapshot of the database, beside a server and
\* an encryption (backup_plain_data, export_to).
THEOREM BackupsAreSnapshots == Spec => []BackupIsSnapshot
BY Invariance, IInvSnapshot, PTL

\* An adoption may be interrupted anywhere (adopt_goose_database, migrate).
THEOREM AdoptionIsSafe == Spec => []NoneTwice
BY Invariance, IInvNoneTwice, PTL

-----------------------------------------------------------------------------
(* Schema versions *)

SameSchema(c, d) == d.stamps = c.stamps /\ d.effects = c.effects /\ d.goose = c.goose

\* What a program creates, and what it takes from a file that was there.
Bare(c) == c.stamps = {} /\ c.effects = {} /\ c.goose = "none"

Derived(c) == Bare(c) \/ \E q \in Place : file[q] # NoFile /\ SameSchema(file[q], c)

LEMMA OpenedDerived ==
  ASSUME TypeOK, NEW k \in BOOLEAN
  PROVE  /\ Opened(file["path"], k) \in Content /\ Derived(Opened(file["path"], k))
         /\ file["path"] # NoFile => SameSchema(file["path"], Opened(file["path"], k))
<1>1. file["path"] \in Content \cup {NoFile} /\ "path" \in Place
  BY DEF TypeOK, Place
<1> QED BY <1>1, OpenedContent DEF Derived, Bare, SameSchema

LEMMA CopiedDerived ==
  ASSUME TypeOK, NEW q \in Place, file[q] # NoFile, NEW k \in BOOLEAN
  PROVE  Copied(file[q], k) \in Content /\ Derived(Copied(file[q], k))
<1>1. file[q] \in Content
  BY DEF TypeOK
<1> QED BY <1>1, CopiedContent DEF Derived, SameSchema

LEMMA FreshDerived == Fresh \in Content /\ Derived(Fresh)
BY FreshContent DEF Derived, Bare

LEMMA PutDerived ==
  ASSUME TypeOK, NEW q \in Place, NEW c \in Content \cup {NoFile}, Put(q, c),
         c # NoFile => Derived(c), NEW p \in Place, file'[p] # NoFile
  PROVE  Derived(file'[p])
<1>1. file'[q] = c /\ \A r \in Place \ {q} : file'[r] = file[r]
  BY PutFiles
<1>2. CASE p = q
  BY <1>1, <1>2
<1>3. CASE p # q
  BY <1>1, <1>3 DEF Derived, SameSchema
<1> QED BY <1>2, <1>3

LEMMA RenamedDerived ==
  ASSUME TypeOK, NEW s \in Place \ {"gone"}, NEW q \in Place \ {"gone", s}, Renamed(s, q),
         NEW p \in Place, file'[p] # NoFile
  PROVE  Derived(file'[p])
<1>1. \E r \in Place : file'[p] = file[r]
  BY RenamedFiles DEF Place
<1> QED BY <1>1 DEF Derived, SameSchema

\* No step but the server's own makes a schema that no file had.
LEMMA SchemasAreDerived ==
  ASSUME TypeOK, [Next]_vars, ~ServeWrites, NEW p \in Place, file'[p] # NoFile
  PROVE  Derived(file'[p])
<1>1. CASE UNCHANGED file
  BY <1>1 DEF Derived, SameSchema
<1>2. ASSUME NEW q \in Place, NEW c \in Content \cup {NoFile}, Put(q, c),
             c # NoFile => Derived(c)
      PROVE  Derived(file'[p])
  BY <1>2, PutDerived
<1>3. CASE \/ Configure \/ Adopt \/ Listen \/ Stop \/ EncryptBegin \/ EncryptEnds
           \/ BackupBegin \/ BackupKilled \/ UNCHANGED vars
  BY <1>1, <1>3 DEF Configure, Adopt, Listen, Stop, EncryptBegin, EncryptEnds,
                    BackupBegin, BackupKilled, vars
<1>4. CASE RemoveBak \/ RemoveBackup \/ BackupFail \/ EncryptClean
  <2>1. PICK q \in {"bak", "dest", "enc"} : Put(q, NoFile)
    BY <1>4 DEF RemoveBak, RemoveBackup, BackupFail, EncryptClean, Put
  <2> QED BY <1>2, <2>1 DEF Place
<1>5. CASE ServeOpen \/ EncryptOpen \/ BackupOpen
  <2>1. UNCHANGED file \/ \E k \in BOOLEAN : Put("path", Opened(file["path"], k))
    BY <1>5 DEF ServeOpen, EncryptOpen, BackupOpen, Put, TypeOK
  <2>2. ASSUME NEW k \in BOOLEAN, Put("path", Opened(file["path"], k))
        PROVE  Derived(file'[p])
    BY <1>2, <2>2, OpenedDerived DEF Place
  <2> QED BY <1>1, <2>1, <2>2
<1>6. CASE EncryptExport \/ BackupCreate \/ BackupExport
  <2>1. \/ UNCHANGED file
        \/ Put("enc", Fresh) \/ Put("dest", Fresh)
        \/ file["path"] # NoFile /\ Put("enc", Copied(file["path"], TRUE))
        \/ at \in Place /\ file[at] # NoFile /\ Put("dest", Copied(file[at], FALSE))
    BY <1>6 DEF EncryptExport, BackupCreate, BackupExport, Put, TypeOK, Place
  <2>2. CASE Put("enc", Fresh) \/ Put("dest", Fresh)
    BY <1>2, <2>2, FreshDerived DEF Place
  <2>3. ASSUME file["path"] # NoFile, Put("enc", Copied(file["path"], TRUE))
        PROVE  Derived(file'[p])
    <3>1. "path" \in Place /\ "enc" \in Place
      BY DEF Place
    <3> QED BY <1>2, <2>3, <3>1, CopiedDerived
  <2>4. ASSUME at \in Place, file[at] # NoFile, Put("dest", Copied(file[at], FALSE))
        PROVE  Derived(file'[p])
    BY <1>2, <2>4, CopiedDerived DEF Place
  <2> QED BY <1>1, <2>1, <2>2, <2>3, <2>4
<1>7. CASE Renames
  <2>1. \/ Renamed("bak", "kept") \/ Renamed("path", "bak")
        \/ Renamed("enc", "path") \/ Renamed("bak", "path") \/ UNCHANGED file
    BY <1>7 DEF Renames, MoveBak, EncryptAside, EncryptInstall
  <2> QED BY <1>1, <2>1, RenamedDerived DEF Place
<1> QED BY <1>3, <1>4, <1>5, <1>6, <1>7, NextCases DEF Quiet, BackupWrites

\* A server that has opened the database keeps it.
LEMMA ServedStays ==
  ASSUME TypeOK, [Next]_vars, ~ServeWrites, serve # "down"
  PROVE  SameSchema(file["path"], file'["path"])
<1>1. encrypt = "idle" /\ file["path"] # NoFile
  BY DEF TypeOK
<1>2. CASE UNCHANGED file
  BY <1>2 DEF SameSchema
<1>3. ASSUME NEW q \in Place \ {"path"}, NEW c \in Content \cup {NoFile}, Put(q, c)
      PROVE  SameSchema(file["path"], file'["path"])
  BY <1>3, PutFiles DEF SameSchema, Place
<1>4. CASE \/ Configure \/ Adopt \/ Listen \/ Stop \/ EncryptBegin \/ EncryptEnds
           \/ BackupBegin \/ BackupKilled \/ UNCHANGED vars
  BY <1>2, <1>4 DEF Configure, Adopt, Listen, Stop, EncryptBegin, EncryptEnds,
                    BackupBegin, BackupKilled, vars
<1>5. CASE RemoveBak \/ RemoveBackup \/ BackupFail
  <2>1. PICK q \in {"bak", "dest"} : Put(q, NoFile)
    BY <1>5 DEF RemoveBak, RemoveBackup, BackupFail, Put
  <2> QED BY <1>3, <2>1 DEF Place
<1>6. CASE BackupOpen
  <2> DEFINE c == Opened(file["path"], key)
  <2>1. c \in Content /\ SameSchema(file["path"], c)
    BY <1>1, OpenedDerived DEF TypeOK
  <2>2. Put("path", c)
    BY <1>6 DEF BackupOpen, Put
  <2> HIDE DEF c
  <2> QED BY <2>1, <2>2, PutFiles DEF Place
<1>7. CASE BackupCreate \/ BackupExport
  <2>1. \/ UNCHANGED file \/ Put("dest", Fresh)
        \/ at \in Place /\ file[at] # NoFile /\ Put("dest", Copied(file[at], FALSE))
    BY <1>7 DEF BackupCreate, BackupExport, Put, TypeOK, Place
  <2> QED BY <1>2, <1>3, <2>1, FreshDerived, CopiedDerived DEF Place
<1>8. CASE MoveBak
  BY <1>8, RenamedFiles DEF MoveBak, SameSchema, Place
<1>9. ~(ServeOpen \/ EncryptClean \/ EncryptOpen \/ EncryptExport \/ EncryptAside
        \/ EncryptInstall)
  BY <1>1 DEF ServeOpen, EncryptClean, EncryptOpen, EncryptExport, EncryptAside,
              EncryptInstall
<1> QED BY <1>4, <1>5, <1>6, <1>7, <1>8, <1>9, NextCases DEF Quiet, Renames, BackupWrites

\* A copy has had the migrations up to some version, with their effects, and
\* one of the last Go version has the effects that version had.
Sound(c) ==
  /\ c.stamps \subseteq c.effects
  /\ \A v \in c.stamps : 1..v \subseteq c.stamps
  /\ c.goose = "last" => 1..Adopted \subseteq c.effects

SchemaInv ==
  /\ \A p \in Place : file[p] # NoFile => Sound(file[p])
  /\ serve = "stamp" => file["path"].goose = "last"
  /\ serve = "up" => Version \subseteq file["path"].stamps

LEMMA SchemaInit == Init => SchemaInv
<1> SUFFICES ASSUME Init PROVE SchemaInv
  OBVIOUS
<1>1. PICK first \in {NoFile, OfGo("old", {1}), OfGo("last", 1..Adopted)} :
        file = [p \in Place |-> IF p = "path" THEN first ELSE NoFile]
  BY DEF Init
<1>2. first # NoFile => Sound(first)
  <2>1. Sound(OfGo("old", {1}))
    BY DEF OfGo, Sound
  <2>2. Sound(OfGo("last", 1..Adopted))
    BY DEF OfGo, Sound
  <2> QED BY <1>1, <2>1, <2>2
<1> QED BY <1>1, <1>2 DEF Init, SchemaInv

LEMMA DerivedSound ==
  ASSUME SchemaInv, NEW c, Derived(c)
  PROVE  Sound(c)
BY DEF SchemaInv, Derived, Bare, SameSchema, Sound

\* The next migration in order keeps a copy sound, once its effect is there.
LEMMA NextVersionSound ==
  ASSUME NEW c, NEW d, NEW v \in Version, Sound(c),
         \A u \in Version : u < v => u \in c.stamps,
         d.stamps = c.stamps \cup {v}, d.goose = c.goose,
         c.effects \subseteq d.effects, v \in d.effects
  PROVE  Sound(d)
<1>1. d.stamps \subseteq d.effects
  BY DEF Sound
<1>2. ASSUME NEW u \in d.stamps PROVE 1..u \subseteq d.stamps
  <2>1. CASE u \in c.stamps
    BY <2>1 DEF Sound
  <2>2. CASE u = v
    BY <2>2, VersionAssumption DEF Version
  <2> QED BY <1>2, <2>1, <2>2
<1>3. d.goose = "last" => 1..Adopted \subseteq d.effects
  BY DEF Sound
<1> QED BY <1>1, <1>2, <1>3 DEF Sound

LEMMA SchemaPut ==
  ASSUME TypeOK, SchemaInv, NEW c \in Content, Put("path", c), Sound(c),
         serve' = "stamp" => c.goose = "last", serve' = "up" => Version \subseteq c.stamps
  PROVE  SchemaInv'
BY PutFiles DEF SchemaInv, Place

LEMMA SchemaServe ==
  ASSUME TypeOK, SchemaInv, ServeWrites
  PROVE  SchemaInv'
<1>0. file["path"] \in Content /\ file["path"] # NoFile /\ Sound(file["path"])
  BY ServeFile, FileAssumption DEF SchemaInv, Place
<1>1. CASE Stamp
  <2>1. PICK v \in 1..Adopted :
          /\ \A u \in 1..Adopted : u < v => u \in file["path"].stamps
          /\ file' = [file EXCEPT !["path"].stamps = @ \cup {v}]
          /\ serve = "stamp" /\ serve' \in {"migrate", "stamp"}
    BY <1>1 DEF Stamp
  <2> DEFINE c == [file["path"] EXCEPT !.stamps = @ \cup {v}]
  <2>2. v \in Version /\ \A u \in Version : u < v => u \in file["path"].stamps
    BY <2>1, VersionAssumption DEF Version
  <2>3. /\ c \in Content /\ c.stamps = file["path"].stamps \cup {v}
        /\ c.effects = file["path"].effects /\ c.goose = file["path"].goose
    BY <1>0, <2>2, StampedContent
  <2>4. Put("path", c)
    BY <2>1 DEF Put
  <2> HIDE DEF c
  <2>5. file["path"].goose = "last" /\ v \in c.effects
    BY <1>0, <2>1, <2>3 DEF SchemaInv, Sound
  <2>6. Sound(c)
    BY <1>0, <2>2, <2>3, <2>5, NextVersionSound
  <2> QED BY <2>1, <2>3, <2>4, <2>5, <2>6, SchemaPut
<1>2. CASE Migrate /\ UNCHANGED file
  <2>1. serve' \in {"down", "migrate"}
    BY <1>2 DEF Migrate
  <2> QED BY <1>2, <2>1 DEF SchemaInv
<1>3. CASE Migrate /\ ~UNCHANGED file
  <2>1. PICK v \in Version :
          /\ \A u \in Version : u < v => u \in file["path"].stamps
          /\ file' = [file EXCEPT !["path"].stamps = @ \cup {v},
                                  !["path"].effects = @ \cup {v}]
          /\ serve' = "migrate"
    BY <1>3 DEF Migrate
  <2> DEFINE b == [file["path"] EXCEPT !.stamps = @ \cup {v}]
             c == [b EXCEPT !.effects = @ \cup {v}]
  <2>2. /\ b \in Content /\ b.stamps = file["path"].stamps \cup {v}
        /\ b.effects = file["path"].effects /\ b.goose = file["path"].goose
    BY <1>0, StampedContent
  <2>3. Put("path", c)
    BY <1>0, <2>1 DEF Put, TypeOK, Place
  <2> HIDE DEF b
  <2>4. /\ c \in Content /\ c.stamps = b.stamps
        /\ c.effects = b.effects \cup {v} /\ c.goose = b.goose
    BY <2>2, StampedContent
  <2> HIDE DEF c
  <2>5. Sound(c)
    BY <1>0, <2>1, <2>2, <2>4, NextVersionSound
  <2> QED BY <2>1, <2>3, <2>4, <2>5, SchemaPut
<1>4. CASE \E w \in Write : Commit(w)
  <2>1. PICK w \in Write : /\ file' = [file EXCEPT !["path"].writes = @ \cup {w}]
                           /\ serve = "up" /\ serve' = "up"
    BY <1>4 DEF Commit
  <2> DEFINE c == [file["path"] EXCEPT !.writes = @ \cup {w}]
  <2>2. /\ c \in Content /\ c.stamps = file["path"].stamps
        /\ c.effects = file["path"].effects /\ c.goose = file["path"].goose
    BY <1>0, WrittenContent
  <2>3. Put("path", c)
    BY <2>1 DEF Put
  <2> HIDE DEF c
  <2> QED BY <1>0, <2>1, <2>2, <2>3, SchemaPut DEF SchemaInv, Sound
<1> QED BY <1>1, <1>2, <1>3, <1>4 DEF ServeWrites

LEMMA SchemaNext == TypeOK /\ SchemaInv /\ [Next]_vars => SchemaInv'
<1> SUFFICES ASSUME TypeOK, SchemaInv, [Next]_vars, ~ServeWrites PROVE SchemaInv'
  BY SchemaServe
<1>1. \A p \in Place : file'[p] # NoFile => Sound(file'[p])
  BY SchemasAreDerived, DerivedSound
<1>2. CASE Adopt
  BY <1>1, <1>2 DEF Adopt, Adopts, SchemaInv
<1>3. CASE Listen
  BY <1>1, <1>3 DEF Listen, SchemaInv
<1>4. CASE ~Adopt /\ ~Listen
  <2>1. serve' = serve \/ serve' \in {"down", "adopt"}
    BY <1>4, NextCases
    DEF Quiet, Renames, BackupWrites, Configure, RemoveBak, RemoveBackup, Stop, EncryptBegin,
        EncryptClean, EncryptEnds, BackupBegin, BackupFail, BackupKilled, ServeOpen,
        EncryptOpen, EncryptExport, MoveBak, EncryptAside, EncryptInstall, BackupCreate,
        BackupOpen, BackupExport, vars
  <2>2. serve # "down" => SameSchema(file["path"], file'["path"])
    BY ServedStays
  <2> QED BY <1>1, <2>1, <2>2 DEF SchemaInv, SameSchema
<1> QED BY <1>2, <1>3, <1>4

LEMMA SchemaHolds == Spec => []SchemaInv
BY SchemaInit, SchemaNext, TypeCorrect, PTL DEF Spec

\* Whichever command is killed where, every copy of the database has had the
\* migrations up to some version, with their effects (Migrator::run,
\* adopt_goose_database).
THEOREM CopiesAreWhole == Spec => []UpToAVersion
<1>1. SchemaInv => UpToAVersion
  BY DEF SchemaInv, Sound, UpToAVersion
<1> QED BY <1>1, SchemaHolds, PTL

\* A request never meets a table that is not there yet (open_database).
THEOREM SchemaIsThere == Spec => []ServesWholeSchema
<1>1. TypeOK /\ SchemaInv => ServesWholeSchema
  BY DEF TypeOK, SchemaInv, Sound, ServesWholeSchema, Place
<1> QED BY <1>1, SchemaHolds, TypeCorrect, PTL

\* An encrypted database with something in it stays encrypted
\* (encrypt_existing, open).
THEOREM EncryptedForGood == Spec => EncryptedStays
<1>1. WritesInv /\ [Next]_vars => [Encrypted => Encrypted']_vars
  <2> SUFFICES ASSUME WritesInv, [Next]_vars, Encrypted PROVE Encrypted'
    OBVIOUS
  <2>1. TypeOK /\ file["path"] \in Content /\ Kind(FALSE) = "plain" /\ "path" \in Place
    BY DEF WritesInv, TypeOK, Encrypted, Kind, Place
  <2>2. ASSUME NEW c \in Content, Put("path", c), c.form = "cipher", c.writes # {}
        PROVE  Encrypted'
    BY <2>1, <2>2, PutFiles, FileAssumption DEF Encrypted
  <2>3. CASE ServeWrites
    BY <2>1, <2>2, <2>3, ServeFile DEF Encrypted
  <2>4. CASE ServeOpen \/ BackupOpen
    <3> DEFINE c == Opened(file["path"], key)
    <3>1. Opens(file["path"], key) /\ Put("path", c) /\ key \in BOOLEAN
      BY <2>1, <2>4 DEF ServeOpen, BackupOpen, Put, TypeOK
    <3>2. c \in Content /\ c.form = Kind(key) /\ c.writes = file["path"].writes
      BY <2>1, <3>1, OpenedContent DEF Encrypted
    <3> HIDE DEF c
    <3>3. Kind(key) = "cipher"
      BY <3>1 DEF Opens, Encrypted
    <3> QED BY <2>2, <3>1, <3>2, <3>3 DEF Encrypted
  <2>5. CASE EncryptOpen
    BY <2>1, <2>5 DEF EncryptOpen, Opens, Encrypted
  <2>6. ASSUME NEW q \in Place \ {"path"}, NEW c \in Content \cup {NoFile}, Put(q, c)
        PROVE  Encrypted'
    BY <2>1, <2>6, PutFiles DEF Encrypted
  <2>7. CASE EncryptExport \/ BackupCreate \/ BackupExport
    <3>1. \/ UNCHANGED file \/ Put("dest", Fresh) \/ Put("enc", Fresh)
          \/ at \in Place /\ file[at] # NoFile /\ Put("dest", Copied(file[at], FALSE))
          \/ Put("enc", Copied(file["path"], TRUE))
      BY <2>1, <2>7 DEF EncryptExport, BackupCreate, BackupExport, Put, TypeOK, Place
    <3>2. CASE UNCHANGED file
      BY <3>2 DEF Encrypted
    <3>3. file["path"] # NoFile
      BY DEF Encrypted
    <3> QED BY <2>1, <2>6, <3>1, <3>2, <3>3, FreshDerived, CopiedDerived DEF Place
  <2>8. CASE MoveBak
    BY <2>1, <2>8, RenamedFiles DEF MoveBak, Encrypted, Place
  <2>9. CASE EncryptInstall
    BY <2>9 DEF EncryptInstall, WritesInv, EncryptOK, Encrypted
  <2>10. CASE EncryptAside
    BY <2>1, <2>10 DEF EncryptAside, TypeOK, Encrypted
  <2>11. CASE RemoveBak \/ RemoveBackup \/ BackupFail \/ EncryptClean
    <3>1. PICK q \in {"bak", "dest", "enc"} : Put(q, NoFile)
      BY <2>11 DEF RemoveBak, RemoveBackup, BackupFail, EncryptClean, Put
    <3> QED BY <2>6, <3>1 DEF Place
  <2>12. CASE \/ Configure \/ Adopt \/ Listen \/ Stop \/ EncryptBegin \/ EncryptEnds
              \/ BackupBegin \/ BackupKilled \/ UNCHANGED vars
    BY <2>12 DEF Configure, Adopt, Listen, Stop, EncryptBegin, EncryptEnds,
                 BackupBegin, BackupKilled, vars, Encrypted
  <2> QED BY <2>3, <2>4, <2>5, <2>7, <2>8, <2>9, <2>10, <2>11, <2>12, NextCases
          DEF Quiet, Renames, BackupWrites
<1>2. Spec => []WritesInv
  BY Invariance, PTL DEF IInv
<1> QED BY <1>1, <1>2, PTL DEF Spec, EncryptedStays
=============================================================================
