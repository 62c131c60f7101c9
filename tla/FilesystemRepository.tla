------------------------- MODULE FilesystemRepository -------------------------
(***************************************************************************)
(* BitsRepositoryInFilesystem and its BitIndex: a bit is a directory         *)
(* user/name/version with an archive and a metadata file, found through an   *)
(* index of names that is kept in memory and rewritten to index.json at the  *)
(* end of every addition.  The caller is BitsHttpResource::post, which looks *)
(* a version up before it adds it.  The process may die between any two      *)
(* calls of the file system, and a file is opened (and emptied) before it is *)
(* written.  The starter does not use this repository any more; its supervisor*)
(* is the one assumed here.                                                *)
(***************************************************************************)
EXTENDS Naturals, FiniteSets

CONSTANTS
    Names, Versions, Users,
    Payloads,       \* texts that validPayload() lets through
    Contents,       \* of archives
    Nothing,        \* the content of an empty file
    Decoded,        \* base64_decode(), of each payload
    Encoded,        \* base64_encode(), of each content
    Nobody,         \* no entry of the index
    Bits,           \* the bits clients publish
    Legacy,         \* bits left on disk by a release with index version 0
    MaxCrashes      \* bound on the deaths of the process

Bit == [name : Names, version : Versions, user : Users, payload : Payloads]

ASSUME RepositoryAssumption ==
    /\ Versions \subseteq Nat
    /\ Nobody \notin Users
    /\ Nothing \in Contents
    /\ Bits \subseteq Bit /\ Legacy \subseteq Bit
    /\ IsFiniteSet(Legacy)
    /\ MaxCrashes \in Nat

\* The older release kept one author for a name, and one bit in a directory.
ASSUME LegacyAssumption ==
    \A b, c \in Legacy : b.name = c.name =>
        /\ b.user = c.user
        /\ b.version = c.version => b = c

\* base64: several texts may have one content, which comes back as one of them.
ASSUME Base64Assumption ==
    /\ Decoded \in [Payloads -> Contents] /\ Encoded \in [Contents -> Payloads]
    /\ \A c \in Contents : Decoded[Encoded[c]] = c

VARIABLES
    tree,           \* of each version directory: is it there, what reading its
                    \* archive gives, and its metadata file
    index_file,     \* index.json
    index,          \* BitIndex::bits: the user whose directory a name leads to
    worker,         \* "down", "idle", or the call add() makes next
    bit,            \* the bit add() was given
    added,          \* history: the bits whose add() has returned
    crashes

vars == <<tree, index_file, index, worker, bit, added, crashes>>

Directory == [user : Users, name : Names, version : Versions]
DirectoryOf(b) == [user |-> b.user, name |-> b.name, version |-> b.version]

NoBit == [name |-> "no bit"]

\* An "emptied" file is one that was opened and not written to its end; an archive
\* in that state, or not there yet, is read as Nothing.
\* The constructor finds no index, one of version 1, or one of version 0, whose
\* entries lead to the directory of one version.
Missing == [format |-> "missing"]
Emptied == [format |-> "emptied"]
Version1(entries) == [format |-> "1", entries |-> entries]
Version0(directories) == [format |-> "0", directories |-> directories]

Indexes == [Names -> Users \cup {Nobody}]

Steps == {"create_directory", "open_payload", "write_payload", "open_metadata",
          "write_metadata", "open_index", "write_index"}

TypeOK ==
    /\ tree \in [Directory -> [there : BOOLEAN,
                               payload : Contents,
                               metadata : {"missing", "emptied", "written"}]]
    /\ index_file \in {Missing, Emptied} \cup {Version1(e) : e \in Indexes}
                          \cup {Version0(d) : d \in SUBSET Directory}
    /\ index \in Indexes
    /\ worker \in Steps \cup {"down", "idle"}
    /\ bit \in IF worker \in Steps THEN Bits ELSE {NoBit}
    /\ added \subseteq Bits \cup Legacy
    /\ crashes \in 0..MaxCrashes

\* Of some versions, the one whose text sorts last.
LastOf(versioned) == {v \in versioned : \A w \in versioned : w.version <= v.version}

Init ==
    /\ tree = [d \in Directory |->
                  IF \E b \in Legacy : DirectoryOf(b) = d
                  THEN [there |-> TRUE, metadata |-> "written",
                        payload |->
                            Decoded[(CHOOSE b \in Legacy : DirectoryOf(b) = d).payload]]
                  ELSE [there |-> FALSE, metadata |-> "missing", payload |-> Nothing]]
    /\ IF Legacy = {} THEN index_file = Missing
       ELSE \E directories \in SUBSET {DirectoryOf(b) : b \in Legacy} :
                /\ \A b \in Legacy : \E d \in directories : d.name = b.name
                /\ \A d, e \in directories : d.name = e.name => d = e
                /\ index_file = Version0(directories)
    /\ index = [n \in Names |-> Nobody]
    /\ worker = "down"
    /\ bit = NoBit
    /\ added = Legacy
    /\ crashes = 0

-------------------------------------------------------------------------------
(* Looking bits up. *)

\* The directories a name leads to through the index, one for each version.
VersionDirectories(n) ==
    {d \in Directory : d.name = n /\ d.user = index[n] /\ tree[d].there}

\* The directory bitBy(name, version) reads.
DirectoryAt(n, v) == {d \in VersionDirectories(n) : d.version = v}

\* Mutant of LatestDirectory: the first of the sorted directories.
FirstDirectory(n) ==
    {d \in VersionDirectories(n) : \A e \in VersionDirectories(n) : d.version <= e.version}

\* The directory bitBy(name) reads.
LatestDirectory(n) == LastOf(VersionDirectories(n))

\* The directories search() reads, of the names that have the queried text in
\* them: one of them that is half-made and loadMetadata() throws, for all of them.
SearchedDirectories(names) == UNION {LatestDirectory(n) : n \in names}

\* Mutant of AllDirectories: the last version of each name only.
LatestDirectories == UNION {LatestDirectory(n) : n \in Names}

\* The directories allBits() reads.
AllDirectories == UNION {VersionDirectories(n) : n \in Names}

\* loadMetadata() throws on a metadata file that is missing or empty.
Readable(d) == tree[d].metadata = "written"

\* The bit that is made of what a readable directory holds.
BitIn(d) == [name |-> d.name, version |-> d.version, user |-> d.user,
             payload |-> Encoded[tree[d].payload]]

\* allBits() throws over a directory it cannot read, and lists nothing then.
AllBitsThrows == \E d \in AllDirectories : ~Readable(d)

\* What allBits() lists.
AllBits == IF AllBitsThrows THEN {} ELSE {BitIn(d) : d \in AllDirectories}

-------------------------------------------------------------------------------
(* The life of the process. *)

\* Mutant of Restored: an index of version 1 is not read.
RestoredVersion0(file) ==
    [n \in Names |->
        IF file.format = "0" /\ \E d \in file.directories : d.name = n
        THEN (CHOOSE d \in file.directories : d.name = n).user ELSE Nobody]

\* Mutant of Restored: an entry of version 0 is kept as it is.
RestoredAsIs(file) ==
    CASE file.format = "1" -> file.entries
      [] file.format = "0" -> [n \in Names |->
             IF \E d \in file.directories : d.name = n
             THEN CHOOSE d \in file.directories : d.name = n ELSE Nobody]
      [] OTHER -> [n \in Names |-> Nobody]

\* BitIndex::restore(), which drops the version from an entry of version 0.
Restored(file) ==
    CASE file.format = "1" -> file.entries
      [] file.format = "0" -> [n \in Names |->
             IF \E d \in file.directories : d.name = n
             THEN (CHOOSE d \in file.directories : d.name = n).user ELSE Nobody]
      [] OTHER -> [n \in Names |-> Nobody]

\* The constructor restores the index; an index file that is empty does not
\* parse, and the exception ends the process.
Start ==
    /\ worker = "down"
    /\ index_file # Emptied
    /\ index' = Restored(index_file)
    /\ worker' = "idle"
    /\ UNCHANGED <<tree, index_file, bit, added, crashes>>

Crash ==
    /\ worker # "down"
    /\ crashes < MaxCrashes
    /\ crashes' = crashes + 1
    /\ worker' = "down"
    /\ bit' = NoBit
    /\ UNCHANGED <<tree, index_file, index, added>>

-------------------------------------------------------------------------------
(* add(), one action for each call of the file system. *)

\* Mutant of StartAdd: the version is not looked up.
StartAddUnchecked(b) ==
    /\ worker = "idle"
    /\ worker' = "create_directory"
    /\ bit' = b
    /\ UNCHANGED <<tree, index_file, index, added, crashes>>

\* The caller finds no such version and calls add().
StartAdd(b) ==
    /\ worker = "idle"
    /\ DirectoryAt(b.name, b.version) = {}
    /\ worker' = "create_directory"
    /\ bit' = b
    /\ UNCHANGED <<tree, index_file, index, added, crashes>>

\* A call that changes the bit's directory.
InDirectory(step, next, change) ==
    /\ worker = step
    /\ worker' = next
    /\ tree' = [tree EXCEPT ![DirectoryOf(bit)] = change]
    /\ UNCHANGED <<index_file, index, bit, added, crashes>>

Now == tree[DirectoryOf(bit)]

CreateDirectory ==
    InDirectory("create_directory", "open_payload", [Now EXCEPT !.there = TRUE])

OpenPayload ==
    InDirectory("open_payload", "write_payload", [Now EXCEPT !.payload = Nothing])

\* Mutant of WritePayload: saveMetadata() is not called.
WritePayloadOnly ==
    InDirectory("write_payload", "open_index", [Now EXCEPT !.payload = Decoded[bit.payload]])

\* savePayload() writes the archive that the payload is the text of.
WritePayload ==
    InDirectory("write_payload", "open_metadata", [Now EXCEPT !.payload = Decoded[bit.payload]])

OpenMetadata ==
    InDirectory("open_metadata", "write_metadata", [Now EXCEPT !.metadata = "emptied"])

WriteMetadata ==
    InDirectory("write_metadata", "open_index", [Now EXCEPT !.metadata = "written"])

\* The name is indexed in memory, and the index file opened.
OpenIndex ==
    /\ worker = "open_index"
    /\ worker' = "write_index"
    /\ index' = [index EXCEPT ![bit.name] = bit.user]
    /\ index_file' = Emptied
    /\ UNCHANGED <<tree, bit, added, crashes>>

\* The serialised index is written and add() returns.
WriteIndex ==
    /\ worker = "write_index"
    /\ worker' = "idle"
    /\ index_file' = Version1(index)
    /\ added' = added \cup {bit}
    /\ bit' = NoBit
    /\ UNCHANGED <<tree, index, crashes>>

Next ==
    \/ Start \/ Crash
    \/ \E b \in Bits : StartAdd(b)
    \/ CreateDirectory \/ OpenPayload \/ WritePayload \/ OpenMetadata \/ WriteMetadata
    \/ OpenIndex \/ WriteIndex

Spec == Init /\ [][Next]_vars

-------------------------------------------------------------------------------
\* All that was added under the name came from one author. The index has one
\* entry for a name: a second author's addition hides the first one's versions,
\* which the first author may then publish once more, over themselves.
SoleAuthor(n) == \A b, c \in added : b.name = n /\ c.name = n => b.user = c.user

\* An added bit stays on disk with the content it was added with: later
\* additions, completed or cut short by a crash, leave its archive and its
\* metadata alone.
AddedIsOnDisk ==
    \A b \in added : SoleAuthor(b.name) =>
        /\ Readable(DirectoryOf(b))
        /\ tree[DirectoryOf(b)].payload = Decoded[b.payload]

\* What a bit is read back as: its payload is the text base64_encode() has for the
\* content, which need not be the text it was published with.
Returned(b) == [b EXCEPT !.payload = Encoded[Decoded[b.payload]]]

\* After any restart, an added bit is found by its name and version, with the
\* content it was added with; a name with two authors leads to one of them.
AddedIsFound ==
    worker = "idle" =>
        \A b \in added :
            /\ \E c \in added : c.name = b.name /\ c.user = index[b.name]
            /\ SoleAuthor(b.name) =>
                   {BitIn(d) : d \in DirectoryAt(b.name, b.version)} = {Returned(b)}

\* allBits() lists every added bit, or throws; without a death it does not throw,
\* for no addition that returned leaves a directory half-made.
AddedIsListed ==
    worker = "idle" =>
        /\ crashes = 0 => ~AllBitsThrows
        /\ AllBitsThrows \/ \A b \in added : SoleAuthor(b.name) => Returned(b) \in AllBits

\* A name in the index, in memory or in an index file that can be read, leads to
\* at least one version that can be read: bitBy(name) never takes the last of
\* an empty list.
IndexedHasVersion ==
    /\ \A n \in Names : index[n] # Nobody =>
           \E d \in VersionDirectories(n) : Readable(d)
    /\ index_file.format = "1" =>
           \A n \in Names : index_file.entries[n] # Nobody =>
               \E d \in Directory : d.name = n /\ d.user = index_file.entries[n] /\ Readable(d)

\* Asked by name, or searched for any text the name contains, the repository
\* shows no version older than one it added there.  (It may look at a later one,
\* whose addition was cut short, and throw: a search then does so for every name.)
LatestIsNoOlder ==
    worker = "idle" =>
        \A b \in added : \A names \in SUBSET Names :
            b.name \in names /\ b.user = index[b.name] =>
                \E d \in SearchedDirectories(names) :
                    d.name = b.name /\ b.version <= d.version

===============================================================================
