----------------------- MODULE FilesystemRepositoryProofs -----------------------
(***************************************************************************)
(* Proofs about FilesystemRepository, for any bits, authors and deaths of    *)
(* the process: its types, that additions leave what a sole author added     *)
(* alone, that it is found and listed after every restart that succeeds, and *)
(* that a name in the index leads to a version that can be read.            *)
(***************************************************************************)
EXTENDS FilesystemRepository, FiniteSetTheorems, WellFoundedInduction, TLAPS

\* The steps at which the bit's directory is not whole yet.
Filling == Steps \ {"open_index", "write_index"}

\* The directory of a bit is there, with the bit in it.
Whole(b) ==
    LET entry == tree[DirectoryOf(b)]
    IN  entry.there /\ entry.metadata = "written" /\ entry.payload = Decoded[b.payload]

\* What add() has done by the call it makes next.
Progress ==
    /\ worker \in Steps \ {"create_directory"} => tree[DirectoryOf(bit)].there
    /\ worker \in {"open_metadata", "write_metadata", "open_index", "write_index"} =>
           tree[DirectoryOf(bit)].payload = Decoded[bit.payload]
    /\ worker \in {"open_index", "write_index"} =>
           tree[DirectoryOf(bit)].metadata = "written"

\* What a sole author added is whole.
AddedIsWhole == \A b \in added : SoleAuthor(b.name) => Whole(b)

\* add() works in a directory in which no sole author added a bit.
Apart ==
    worker \in Steps =>
        \A b \in added : SoleAuthor(b.name) => DirectoryOf(b) # DirectoryOf(bit)

\* A name with a bit leads to an author who added one under it.
Leads(entries, name) == \E c \in added : c.name = name /\ c.user = entries[name]

\* The index in memory leads to the added bits, but for the name whose entry was
\* just changed.
IndexLeads ==
    /\ worker \in (Steps \ {"write_index"}) \cup {"idle"} =>
           \A b \in added : Leads(index, b.name)
    /\ worker = "write_index" =>
           /\ index[bit.name] = bit.user
           /\ \A b \in added : b.name # bit.name => Leads(index, b.name)

\* So does the index file, in each of its formats, unless it was emptied.
FileLeads ==
    /\ index_file.format = "missing" => added = {}
    /\ index_file.format = "emptied" => worker \in {"down", "write_index"}
    /\ index_file.format = "1" =>
           /\ \A b \in added : Leads(index_file.entries, b.name)
           /\ worker # "down" => index_file.entries = index
    /\ index_file.format = "0" =>
           /\ \A d, e \in index_file.directories : d.name = e.name => d = e
           /\ \A b \in added : \E d \in index_file.directories : d.name = b.name
           /\ \A d \in index_file.directories :
                  /\ \E c \in added : c.name = d.name /\ c.user = d.user
                  /\ worker # "down" => index[d.name] = d.user
           /\ worker # "down" =>
                  \A n \in Names : index[n] # Nobody =>
                      \E d \in index_file.directories : d.name = n

\* A directory that is there, can be read, and is not the one being filled.
Settled(d) ==
    /\ tree[d].there
    /\ Readable(d)
    /\ worker \in Filling => d # DirectoryOf(bit)

\* Whatever an index may lead to has a settled directory.
IndexSettled ==
    /\ \A n \in Names : index[n] # Nobody =>
           \E d \in Directory : d.name = n /\ d.user = index[n] /\ Settled(d)
    /\ index_file.format = "1" =>
           \A n \in Names : index_file.entries[n] # Nobody =>
               \E d \in Directory :
                   d.name = n /\ d.user = index_file.entries[n] /\ Settled(d)
    /\ index_file.format = "0" => \A d \in index_file.directories : Settled(d)

IInv ==
    /\ TypeOK
    /\ Progress
    /\ AddedIsWhole
    /\ Apart
    /\ IndexLeads
    /\ FileLeads
    /\ IndexSettled

-------------------------------------------------------------------------------
(* Lemmas about the parts of the state. *)

Entries == [there : BOOLEAN, payload : Contents,
            metadata : {"missing", "emptied", "written"}]

\* A bit has a directory of its own.
LEMMA BitDirectory ==
    ASSUME NEW b \in Bit
    PROVE  /\ DirectoryOf(b) \in Directory
           /\ DirectoryOf(b).name = b.name /\ DirectoryOf(b).user = b.user
           /\ DirectoryOf(b).version = b.version
  BY DEF Bit, Directory, DirectoryOf

\* What is being added, and what was added, are bits.
LEMMA Typing ==
    ASSUME TypeOK
    PROVE  /\ worker \in Steps => bit \in Bit /\ bit \in Bits
           /\ added \subseteq Bit
           /\ tree \in [Directory -> Entries]
           /\ index \in [Names -> Users \cup {Nobody}]
  BY RepositoryAssumption DEF TypeOK, Entries, Indexes

\* An index file is of one of the four formats.
LEMMA FileFormats ==
    ASSUME TypeOK
    PROVE  /\ index_file.format \in {"missing", "emptied", "0", "1"}
           /\ index_file.format = "1" => index_file.entries \in Indexes
           /\ index_file.format = "0" => index_file.directories \subseteq Directory
           /\ index_file # Emptied => index_file.format # "emptied"
<1>1. CASE index_file \in {Missing, Emptied}
  BY <1>1 DEF Missing, Emptied
<1>2. CASE \E e \in Indexes : index_file = Version1(e)
  BY <1>2 DEF Version1, Emptied
<1>3. CASE \E d \in SUBSET Directory : index_file = Version0(d)
  BY <1>3 DEF Version0, Emptied
<1> QED
  BY <1>1, <1>2, <1>3 DEF TypeOK

\* The first state satisfies the invariant: what the older release left is whole,
\* and each name has one author.
LEMMA InitInvariant == Init => IInv
<1> SUFFICES ASSUME Init PROVE IInv
  OBVIOUS
<1>1. Legacy \subseteq Bit /\ added = Legacy /\ worker = "down" /\ bit = NoBit
  BY RepositoryAssumption DEF Init
<1>2. \A b \in Legacy : DirectoryOf(b) \in Directory
  BY <1>1, BitDirectory
<1>3. \A b, c \in Legacy : DirectoryOf(b) = DirectoryOf(c) => b = c
  BY <1>1, BitDirectory, LegacyAssumption
<1>4. \A b \in Legacy : Whole(b)
  BY <1>1, <1>2, <1>3 DEF Init, Whole
<1>5. tree \in [Directory -> Entries]
  <2>1. ASSUME NEW d \in Directory, \E b \in Legacy : DirectoryOf(b) = d
        PROVE  Decoded[(CHOOSE b \in Legacy : DirectoryOf(b) = d).payload] \in Contents
    BY <1>1, <2>1, Base64Assumption DEF Bit
  <2> QED
    BY <2>1, RepositoryAssumption DEF Init, Entries
<1>6. index \in Indexes /\ \A n \in Names : index[n] = Nobody
  BY DEF Init, Indexes
<1>7. \/ index_file = Missing /\ Legacy = {}
      \/ \E directories \in SUBSET {DirectoryOf(b) : b \in Legacy} :
             /\ \A b \in Legacy : \E d \in directories : d.name = b.name
             /\ \A d, e \in directories : d.name = e.name => d = e
             /\ index_file = Version0(directories)
  BY DEF Init
<1>8. TypeOK
  <2>1. index_file \in {Missing} \cup {Version0(d) : d \in SUBSET Directory}
    BY <1>2, <1>7
  <2>2. crashes \in 0..MaxCrashes
    BY RepositoryAssumption DEF Init
  <2> QED
    BY <1>1, <1>5, <1>6, <2>1, <2>2 DEF TypeOK, Entries, Steps
<1>9. Progress /\ Apart /\ IndexLeads
  BY <1>1 DEF Progress, Apart, IndexLeads, Steps
<1>10. AddedIsWhole
  BY <1>1, <1>4 DEF AddedIsWhole
<1>11. FileLeads /\ IndexSettled
  <2>1. CASE index_file = Missing /\ Legacy = {}
    BY <1>1, <1>6, <2>1 DEF FileLeads, IndexSettled, Missing
  <2>2. ASSUME NEW directories \in SUBSET {DirectoryOf(b) : b \in Legacy},
               \A b \in Legacy : \E d \in directories : d.name = b.name,
               \A d, e \in directories : d.name = e.name => d = e,
               index_file = Version0(directories)
        PROVE  FileLeads /\ IndexSettled
    <3>1. index_file.format = "0" /\ index_file.directories = directories
      BY <2>2 DEF Version0
    <3>2. \A d \in directories : \E c \in added : c.name = d.name /\ c.user = d.user
      BY <1>1, BitDirectory
    <3>3. FileLeads
      BY <1>1, <2>2, <3>1, <3>2 DEF FileLeads
    <3>4. \A d \in directories : Settled(d)
      BY <1>1, <1>4 DEF Settled, Whole, Readable, Filling, Steps
    <3> QED
      BY <1>6, <3>1, <3>3, <3>4 DEF IndexSettled
  <2> QED
    BY <1>7, <2>1, <2>2
<1> QED
  BY <1>8, <1>9, <1>10, <1>11 DEF IInv

-------------------------------------------------------------------------------
(* The steps. *)

\* A step that leaves the history alone leaves a name's authors alone.
LEMMA SameAuthors ==
    ASSUME added' = added
    PROVE  \A n : SoleAuthor(n)' <=> SoleAuthor(n)
  BY DEF SoleAuthor

\* The constructor reads an index that leads where its file does.
LEMMA StartKeeps == IInv /\ Start => IInv'
<1> SUFFICES ASSUME IInv, Start PROVE IInv'
  OBVIOUS
<1> USE DEF IInv
<1>1. worker = "down" /\ worker' = "idle" /\ bit' = bit /\ tree' = tree
      /\ added' = added /\ index_file' = index_file /\ index' = Restored(index_file)
  BY DEF Start
<1>2. index_file.format \in {"missing", "0", "1"}
  BY FileFormats DEF Start
<1>3. index' \in Indexes
  <2>1. CASE index_file.format = "0"
    <3>1. \A n \in Names : (\E d \in index_file.directories : d.name = n) =>
              (CHOOSE d \in index_file.directories : d.name = n).user \in Users
      BY <2>1, FileFormats DEF Directory
    <3> QED
      BY <1>1, <2>1, <3>1 DEF Restored, Indexes
  <2> QED
    BY <1>1, <1>2, <2>1, FileFormats DEF Restored, Indexes
<1>4. TypeOK'
  BY <1>1, <1>3 DEF Start, TypeOK, Steps
<1>5. Progress' /\ Apart' /\ AddedIsWhole'
  BY <1>1, SameAuthors DEF Progress, Apart, AddedIsWhole, Whole, Steps
<1>6. CASE index_file.format = "missing"
  <2>1. added = {} /\ \A n \in Names : index'[n] = Nobody
    BY <1>1, <1>6 DEF FileLeads, Restored
  <2>2. IndexLeads' /\ FileLeads' /\ IndexSettled'
    BY <1>1, <1>6, <2>1 DEF IndexLeads, FileLeads, IndexSettled
  <2> QED
    BY <1>4, <1>5, <2>2
<1>7. CASE index_file.format = "1"
  <2>1. index' = index_file.entries
    BY <1>1, <1>7 DEF Restored
  <2>2. IndexLeads' /\ FileLeads'
    BY <1>1, <1>7, <2>1 DEF IndexLeads, FileLeads, Leads
  <2>3. \A d : Settled(d) => Settled(d)'
    BY <1>1 DEF Settled, Readable, Filling, Steps
  <2>4. IndexSettled'
    BY <1>1, <1>7, <2>1, <2>3 DEF IndexSettled
  <2> QED
    BY <1>4, <1>5, <2>2, <2>4
<1>8. CASE index_file.format = "0"
  <2> DEFINE ds == index_file.directories
  <2>1. /\ ds \subseteq Directory
        /\ \A d, e \in ds : d.name = e.name => d = e
        /\ \A b \in added : \E d \in ds : d.name = b.name
        /\ \A d \in ds : \E c \in added : c.name = d.name /\ c.user = d.user
    BY <1>8, FileFormats DEF FileLeads
  <2>2. \A d \in ds : index'[d.name] = d.user
    <3>1. ASSUME NEW d \in ds PROVE index'[d.name] = d.user
      <4>1. d.name \in Names
        BY <2>1 DEF Directory
      <4>2. (CHOOSE e \in ds : e.name = d.name) = d
        BY <2>1
      <4> QED
        BY <1>1, <1>8, <4>1, <4>2 DEF Restored
    <3> QED
      BY <3>1
  <2>3. \A n \in Names : index'[n] # Nobody => \E d \in ds : d.name = n
    BY <1>1, <1>8 DEF Restored
  <2>4. \A b \in added : Leads(index, b.name)'
    BY <1>1, <2>1, <2>2 DEF Leads
  <2>5. IndexLeads' /\ FileLeads'
    BY <1>1, <1>8, <2>1, <2>2, <2>3, <2>4 DEF IndexLeads, FileLeads, Steps
  <2>6. \A d \in ds : Settled(d)'
    BY <1>1, <1>8 DEF IndexSettled, Settled, Readable, Filling, Steps
  <2>7. IndexSettled'
    BY <1>1, <1>8, <2>1, <2>2, <2>3, <2>6 DEF IndexSettled
  <2> QED
    BY <1>4, <1>5, <2>5, <2>7
<1> QED
  BY <1>2, <1>6, <1>7, <1>8

\* A death leaves the files as they are.
LEMMA CrashKeeps == IInv /\ Crash => IInv'
<1> SUFFICES ASSUME IInv, Crash PROVE IInv'
  OBVIOUS
<1> USE DEF IInv
<1>1. worker' = "down" /\ bit' = NoBit /\ tree' = tree /\ added' = added
      /\ index_file' = index_file /\ index' = index
  BY DEF Crash
<1>2. TypeOK'
  BY <1>1, RepositoryAssumption DEF Crash, TypeOK, Steps
<1>3. Progress' /\ Apart' /\ AddedIsWhole' /\ IndexLeads'
  BY <1>1, SameAuthors DEF Progress, Apart, AddedIsWhole, Whole, IndexLeads, Steps
<1>4. FileLeads'
  BY <1>1 DEF FileLeads, Leads
<1>5. \A d : Settled(d) => Settled(d)'
  BY <1>1 DEF Settled, Readable, Filling, Steps
<1>6. IndexSettled'
  BY <1>1, <1>5 DEF IndexSettled
<1> QED
  BY <1>2, <1>3, <1>4, <1>6

\* The caller's look-up keeps the addition out of every directory an index leads to.
LEMMA StartAddKeeps == ASSUME NEW b \in Bits PROVE IInv /\ StartAdd(b) => IInv'
<1> SUFFICES ASSUME IInv, StartAdd(b) PROVE IInv'
  OBVIOUS
<1> USE DEF IInv
<1>1. worker = "idle" /\ worker' = "create_directory" /\ bit' = b /\ tree' = tree
      /\ added' = added /\ index_file' = index_file /\ index' = index
      /\ crashes' = crashes /\ DirectoryAt(b.name, b.version) = {}
  BY DEF StartAdd
<1>2. b \in Bit /\ DirectoryOf(b) \in Directory
      /\ DirectoryOf(b).name = b.name /\ DirectoryOf(b).user = b.user
      /\ DirectoryOf(b).version = b.version
  BY BitDirectory, RepositoryAssumption
<1>3. TypeOK'
  BY <1>1 DEF TypeOK, Steps
<1>4. Progress' /\ AddedIsWhole'
  BY <1>1, SameAuthors DEF Progress, AddedIsWhole, Whole
<1>5. IndexLeads'
  BY <1>1 DEF IndexLeads, Leads, Steps
<1>6. FileLeads'
  BY <1>1 DEF FileLeads, Leads
\* A directory the index leads to, of this name and version, would be found.
<1>7. \A d \in Directory : d.name \in Names /\ d.user = index[d.name] /\ tree[d].there
          => d # DirectoryOf(b)
  BY <1>1, <1>2 DEF DirectoryAt, VersionDirectories
<1>8. Apart'
  <2>1. ASSUME NEW c \in added, SoleAuthor(c.name), DirectoryOf(c) = DirectoryOf(b)
        PROVE  FALSE
    <3>1. c \in Bit
      BY Typing
    <3>2. c.user = index[c.name]
      BY <1>1, <2>1 DEF IndexLeads, Leads, SoleAuthor
    <3>3. tree[DirectoryOf(c)].there
      BY <2>1 DEF AddedIsWhole, Whole
    <3> QED
      BY <1>7, <2>1, <3>1, <3>2, <3>3, BitDirectory DEF Bit
  <2> QED
    BY <1>1, <2>1, SameAuthors DEF Apart
<1>9. IndexSettled'
  <2>1. \A d \in Directory : Settled(d) /\ d.user = index[d.name] => Settled(d)'
    BY <1>1, <1>7 DEF Settled, Readable, Directory
  <2>2. CASE index_file.format = "0"
    BY <1>1, <2>1, <2>2, FileFormats DEF IndexSettled, FileLeads
  <2>3. CASE index_file.format = "1"
    BY <1>1, <2>1, <2>3 DEF IndexSettled, FileLeads
  <2>4. CASE index_file.format \notin {"0", "1"}
    BY <1>1, <2>1, <2>4 DEF IndexSettled
  <2> QED
    BY <2>2, <2>3, <2>4
<1> QED
  BY <1>3, <1>4, <1>5, <1>6, <1>8, <1>9

\* What a sole author added, and what an index leads to, lies outside the
\* directory that a call of add() fills.
LEMMA FillingKeeps ==
    ASSUME IInv,
           NEW step \in Filling,
           NEW next \in Steps \ {"create_directory", "write_index"},
           NEW change \in Entries,
           InDirectory(step, next, change)
    PROVE  /\ tree'[DirectoryOf(bit)] = change
           /\ Progress' => IInv'
<1> USE DEF IInv
<1>1. worker = step /\ worker' = next /\ bit' = bit /\ added' = added
      /\ index_file' = index_file /\ index' = index /\ crashes' = crashes
      /\ tree' = [tree EXCEPT ![DirectoryOf(bit)] = change]
  BY DEF InDirectory
<1>2. worker \in Steps /\ worker \in Filling /\ worker # "down" /\ worker # "write_index"
      /\ worker' # "down" /\ worker' # "write_index"
  BY <1>1 DEF Filling, Steps
<1>3. bit \in Bit /\ bit \in Bits /\ DirectoryOf(bit) \in Directory
      /\ tree \in [Directory -> Entries]
  BY <1>2, Typing, BitDirectory
<1>4. tree' \in [Directory -> Entries] /\ tree'[DirectoryOf(bit)] = change
      /\ \A d \in Directory : d # DirectoryOf(bit) => tree'[d] = tree[d]
  BY <1>1, <1>3
<1>5. TypeOK'
  BY <1>1, <1>2, <1>4 DEF TypeOK, Entries
<1>6. Apart'
  BY <1>1, <1>2, SameAuthors DEF Apart
<1>7. AddedIsWhole'
  <2>1. ASSUME NEW b \in added, SoleAuthor(b.name) PROVE Whole(b)'
    <3>1. DirectoryOf(b) # DirectoryOf(bit)
      BY <1>2, <2>1 DEF Apart
    <3>2. DirectoryOf(b) \in Directory
      BY Typing, BitDirectory
    <3> QED
      BY <1>4, <2>1, <3>1, <3>2 DEF AddedIsWhole, Whole
  <2> QED
    BY <1>1, <2>1, SameAuthors DEF AddedIsWhole
<1>8. IndexLeads'
  BY <1>1, <1>2 DEF IndexLeads, Leads
<1>9. FileLeads'
  BY <1>1, <1>2 DEF FileLeads, Leads
<1>10. \A d \in Directory : Settled(d) => Settled(d)'
  BY <1>1, <1>2, <1>4 DEF Settled, Readable
<1>11. IndexSettled'
  BY <1>1, <1>10, FileFormats DEF IndexSettled
<1> QED
  BY <1>4, <1>5, <1>6, <1>7, <1>8, <1>9, <1>11

LEMMA CreateDirectoryKeeps == IInv /\ CreateDirectory => IInv'
<1> SUFFICES ASSUME IInv, CreateDirectory PROVE IInv'
  OBVIOUS
<1> DEFINE change == [Now EXCEPT !.there = TRUE]
<1>1. InDirectory("create_directory", "open_payload", change)
  BY DEF CreateDirectory
<1>2. Now \in Entries
  BY <1>1, Typing, BitDirectory DEF IInv, Now, InDirectory, Steps
<1>3. change \in Entries /\ change.there
  BY <1>2 DEF Entries
<1>4. tree'[DirectoryOf(bit)] = change /\ (Progress' => IInv')
  BY <1>1, <1>3, FillingKeeps DEF Filling, Steps
<1>5. Progress'
  BY <1>1, <1>3, <1>4 DEF Progress, InDirectory, Steps
<1> QED
  BY <1>4, <1>5

LEMMA OpenPayloadKeeps == IInv /\ OpenPayload => IInv'
<1> SUFFICES ASSUME IInv, OpenPayload PROVE IInv'
  OBVIOUS
<1> DEFINE change == [Now EXCEPT !.payload = Nothing]
<1>1. InDirectory("open_payload", "write_payload", change)
  BY DEF OpenPayload
<1>2. Now \in Entries /\ Now.there
  BY <1>1, Typing, BitDirectory DEF IInv, Now, InDirectory, Steps, Progress
<1>3. change \in Entries /\ change.there
  BY <1>2, RepositoryAssumption DEF Entries
<1>4. tree'[DirectoryOf(bit)] = change /\ (Progress' => IInv')
  BY <1>1, <1>3, FillingKeeps DEF Filling, Steps
<1>5. Progress'
  BY <1>1, <1>3, <1>4 DEF Progress, InDirectory, Steps
<1> QED
  BY <1>4, <1>5

LEMMA WritePayloadKeeps == IInv /\ WritePayload => IInv'
<1> SUFFICES ASSUME IInv, WritePayload PROVE IInv'
  OBVIOUS
<1> DEFINE change == [Now EXCEPT !.payload = Decoded[bit.payload]]
<1>1. InDirectory("write_payload", "open_metadata", change)
  BY DEF WritePayload
<1>2. Now \in Entries /\ Now.there /\ bit \in Bit
  BY <1>1, Typing, BitDirectory DEF IInv, Now, InDirectory, Steps, Progress
<1>3. change \in Entries /\ change.there /\ change.payload = Decoded[bit.payload]
  BY <1>2, Base64Assumption DEF Entries, Bit
<1>4. tree'[DirectoryOf(bit)] = change /\ (Progress' => IInv')
  BY <1>1, <1>3, FillingKeeps DEF Filling, Steps
<1>5. Progress'
  BY <1>1, <1>3, <1>4 DEF Progress, InDirectory, Steps
<1> QED
  BY <1>4, <1>5

LEMMA OpenMetadataKeeps == IInv /\ OpenMetadata => IInv'
<1> SUFFICES ASSUME IInv, OpenMetadata PROVE IInv'
  OBVIOUS
<1> DEFINE change == [Now EXCEPT !.metadata = "emptied"]
<1>1. InDirectory("open_metadata", "write_metadata", change)
  BY DEF OpenMetadata
<1>2. Now \in Entries /\ Now.there /\ Now.payload = Decoded[bit.payload]
  BY <1>1, Typing, BitDirectory DEF IInv, Now, InDirectory, Steps, Progress
<1>3. change \in Entries /\ change.there /\ change.payload = Decoded[bit.payload]
  BY <1>2 DEF Entries
<1>4. tree'[DirectoryOf(bit)] = change /\ (Progress' => IInv')
  BY <1>1, <1>3, FillingKeeps DEF Filling, Steps
<1>5. Progress'
  BY <1>1, <1>3, <1>4 DEF Progress, InDirectory, Steps
<1> QED
  BY <1>4, <1>5

LEMMA WriteMetadataKeeps == IInv /\ WriteMetadata => IInv'
<1> SUFFICES ASSUME IInv, WriteMetadata PROVE IInv'
  OBVIOUS
<1> DEFINE change == [Now EXCEPT !.metadata = "written"]
<1>1. InDirectory("write_metadata", "open_index", change)
  BY DEF WriteMetadata
<1>2. Now \in Entries /\ Now.there /\ Now.payload = Decoded[bit.payload]
  BY <1>1, Typing, BitDirectory DEF IInv, Now, InDirectory, Steps, Progress
<1>3. change \in Entries /\ change.there /\ change.payload = Decoded[bit.payload]
      /\ change.metadata = "written"
  BY <1>2 DEF Entries
<1>4. tree'[DirectoryOf(bit)] = change /\ (Progress' => IInv')
  BY <1>1, <1>3, FillingKeeps DEF Filling, Steps
<1>5. Progress'
  BY <1>1, <1>3, <1>4 DEF Progress, InDirectory, Steps
<1> QED
  BY <1>4, <1>5

\* The name is led to the directory that was just filled.
LEMMA OpenIndexKeeps == IInv /\ OpenIndex => IInv'
<1> SUFFICES ASSUME IInv, OpenIndex PROVE IInv'
  OBVIOUS
<1> USE DEF IInv
<1>1. worker = "open_index" /\ worker' = "write_index" /\ bit' = bit /\ added' = added
      /\ index_file' = Emptied /\ index' = [index EXCEPT ![bit.name] = bit.user]
      /\ crashes' = crashes /\ tree' = tree
  BY DEF OpenIndex
<1>2. bit \in Bit /\ bit \in Bits /\ DirectoryOf(bit) \in Directory
      /\ DirectoryOf(bit).name = bit.name /\ DirectoryOf(bit).user = bit.user
      /\ bit.name \in Names /\ bit.user \in Users
  BY <1>1, Typing, BitDirectory DEF Steps, Bit
<1>3. index' \in Indexes /\ index'[bit.name] = bit.user
      /\ \A n \in Names : n # bit.name => index'[n] = index[n]
  BY <1>1, <1>2, Typing DEF Indexes
<1>4. TypeOK'
  BY <1>1, <1>3 DEF TypeOK, Steps
<1>5. Progress' /\ AddedIsWhole' /\ Apart'
  BY <1>1, SameAuthors DEF Progress, AddedIsWhole, Whole, Apart, Steps
<1>6. IndexLeads'
  <2>1. ASSUME NEW b \in added, b.name # bit.name PROVE Leads(index, b.name)'
    <3>1. b.name \in Names
      BY Typing DEF Bit
    <3> QED
      BY <1>1, <1>3, <2>1, <3>1 DEF IndexLeads, Leads, Steps
  <2> QED
    BY <1>1, <1>3, <2>1 DEF IndexLeads, Steps
<1>7. FileLeads'
  BY <1>1 DEF FileLeads, Emptied
<1>8. \A d : Settled(d) => Settled(d)'
  BY <1>1 DEF Settled, Readable, Filling
<1>9. Settled(DirectoryOf(bit))'
  BY <1>1 DEF Settled, Readable, Filling, Progress, Steps
<1>10. IndexSettled'
  BY <1>1, <1>2, <1>3, <1>8, <1>9 DEF IndexSettled, Emptied
<1> QED
  BY <1>4, <1>5, <1>6, <1>7, <1>10

\* The bit joins those that were added when its directory is whole and its name
\* leads to its author.
LEMMA WriteIndexKeeps == IInv /\ WriteIndex => IInv'
<1> SUFFICES ASSUME IInv, WriteIndex PROVE IInv'
  OBVIOUS
<1> USE DEF IInv
<1>1. worker = "write_index" /\ worker' = "idle" /\ bit' = NoBit
      /\ added' = added \cup {bit} /\ index_file' = Version1(index) /\ index' = index
      /\ crashes' = crashes /\ tree' = tree
  BY DEF WriteIndex
<1>2. bit \in Bits /\ index \in Indexes
  BY <1>1, Typing DEF Steps, Indexes
<1>3. index_file'.format = "1" /\ index_file'.entries = index
  BY <1>1 DEF Version1
<1>4. TypeOK'
  BY <1>1, <1>2 DEF TypeOK, Steps
<1>5. Progress' /\ Apart'
  BY <1>1 DEF Progress, Apart, Steps
<1>6. AddedIsWhole'
  <2>1. \A n : SoleAuthor(n)' => SoleAuthor(n)
    BY <1>1 DEF SoleAuthor
  <2>2. Whole(bit)
    BY <1>1 DEF Progress, Whole, Steps
  <2> QED
    BY <1>1, <2>1, <2>2 DEF AddedIsWhole, Whole
<1>7. \A b \in added' : Leads(index, b.name)'
  BY <1>1 DEF IndexLeads, Leads
<1>8. IndexLeads'
  BY <1>1, <1>7 DEF IndexLeads
<1>9. FileLeads'
  BY <1>1, <1>3, <1>7 DEF FileLeads, Leads
<1>10. \A d : Settled(d) => Settled(d)'
  BY <1>1 DEF Settled, Readable, Filling, Steps
<1>11. IndexSettled'
  BY <1>1, <1>3, <1>10 DEF IndexSettled
<1> QED
  BY <1>4, <1>5, <1>6, <1>8, <1>9, <1>11

LEMMA StutteringKeeps == IInv /\ UNCHANGED vars => IInv'
<1> SUFFICES ASSUME IInv, UNCHANGED vars PROVE IInv'
  OBVIOUS
<1>1. tree' = tree /\ index_file' = index_file /\ index' = index /\ worker' = worker
      /\ bit' = bit /\ added' = added /\ crashes' = crashes
  BY DEF vars
<1>2. TypeOK' /\ Progress' /\ Apart' /\ AddedIsWhole'
  BY <1>1, SameAuthors DEF IInv, TypeOK, Progress, Apart, AddedIsWhole, Whole
<1>3. IndexLeads' /\ FileLeads'
  BY <1>1 DEF IInv, IndexLeads, FileLeads, Leads
<1>4. IndexSettled'
  BY <1>1 DEF IInv, IndexSettled, Settled, Readable
<1> QED
  BY <1>2, <1>3, <1>4 DEF IInv

\* Each step preserves the invariant.
LEMMA NextInvariant == IInv /\ [Next]_vars => IInv'
<1> SUFFICES ASSUME IInv, [Next]_vars PROVE IInv'
  OBVIOUS
<1>1. CASE Start
  BY <1>1, StartKeeps
<1>2. CASE Crash
  BY <1>2, CrashKeeps
<1>3. ASSUME NEW b \in Bits, StartAdd(b) PROVE IInv'
  BY <1>3, StartAddKeeps
<1>4. CASE CreateDirectory
  BY <1>4, CreateDirectoryKeeps
<1>5. CASE OpenPayload
  BY <1>5, OpenPayloadKeeps
<1>6. CASE WritePayload
  BY <1>6, WritePayloadKeeps
<1>7. CASE OpenMetadata
  BY <1>7, OpenMetadataKeeps
<1>8. CASE WriteMetadata
  BY <1>8, WriteMetadataKeeps
<1>9. CASE OpenIndex
  BY <1>9, OpenIndexKeeps
<1>10. CASE WriteIndex
  BY <1>10, WriteIndexKeeps
<1>11. CASE UNCHANGED vars
  BY <1>11, StutteringKeeps
<1> QED
  BY <1>1, <1>2, <1>3, <1>4, <1>5, <1>6, <1>7, <1>8, <1>9, <1>10, <1>11 DEF Next

LEMMA Invariance == Spec => []IInv
  BY InitInvariant, NextInvariant, PTL DEF Spec

-------------------------------------------------------------------------------
(* The theorems. *)

\* The types of the repository's files, index and worker, after any addition,
\* death and restart.
THEOREM TypeCorrect == Spec => []TypeOK
<1>1. IInv => TypeOK
  BY DEF IInv
<1> QED
  BY <1>1, Invariance, PTL

\* What a sole author added stays on disk with its content, whatever is added
\* later and wherever the process dies.
THEOREM AddedStaysOnDisk == Spec => []AddedIsOnDisk
<1>1. IInv => AddedIsOnDisk
  BY DEF IInv, AddedIsWhole, Whole, AddedIsOnDisk, Readable
<1> QED
  BY <1>1, Invariance, PTL

\* The index in memory leads to the directory of what a sole author added, and
\* what is made of it is the bit with the canonical text of its content.
LEMMA SoleDirectory ==
    ASSUME IInv, worker = "idle", NEW b \in added, SoleAuthor(b.name)
    PROVE  /\ b.name \in Names /\ index[b.name] = b.user
           /\ DirectoryOf(b) \in VersionDirectories(b.name)
           /\ BitIn(DirectoryOf(b)) = Returned(b)
<1>1. b \in Bit /\ DirectoryOf(b) \in Directory /\ b.name \in Names
  BY Typing, BitDirectory DEF IInv, Bit
<1>2. index[b.name] = b.user
  BY DEF IInv, IndexLeads, Leads, SoleAuthor
<1>3. tree[DirectoryOf(b)].there /\ tree[DirectoryOf(b)].payload = Decoded[b.payload]
  BY DEF IInv, AddedIsWhole, Whole
<1>4. DirectoryOf(b) \in VersionDirectories(b.name)
  BY <1>1, <1>2, <1>3, BitDirectory DEF VersionDirectories
<1>5. BitIn(DirectoryOf(b)) = Returned(b)
  BY <1>1, <1>3 DEF BitIn, Returned, DirectoryOf, Bit
<1> QED
  BY <1>1, <1>2, <1>4, <1>5

\* A name leads to an author who added a bit under it, and what a sole author
\* added is found with its content, after every restart that succeeds.
THEOREM AddedStaysFound == Spec => []AddedIsFound
<1>1. IInv => AddedIsFound
  <2> SUFFICES ASSUME IInv, worker = "idle", NEW b \in added
               PROVE  /\ \E c \in added : c.name = b.name /\ c.user = index[b.name]
                      /\ SoleAuthor(b.name) =>
                             {BitIn(d) : d \in DirectoryAt(b.name, b.version)} = {Returned(b)}
    BY DEF AddedIsFound
  <2>1. \E c \in added : c.name = b.name /\ c.user = index[b.name]
    BY DEF IInv, IndexLeads, Leads
  <2>2. ASSUME SoleAuthor(b.name)
        PROVE  {BitIn(d) : d \in DirectoryAt(b.name, b.version)} = {Returned(b)}
    <3>1. DirectoryOf(b) \in DirectoryAt(b.name, b.version)
      BY <2>2, SoleDirectory, Typing, BitDirectory DEF DirectoryAt, IInv
    <3>2. index[b.name] = b.user /\ BitIn(DirectoryOf(b)) = Returned(b)
      BY <2>2, SoleDirectory
    <3>3. \A d \in DirectoryAt(b.name, b.version) : d = DirectoryOf(b)
      BY <3>2 DEF DirectoryAt, VersionDirectories, DirectoryOf, Directory
    <3> QED
      BY <3>1, <3>2, <3>3
  <2> QED
    BY <2>1, <2>2
<1> QED
  BY <1>1, Invariance, PTL

\* Until the process dies, a directory is half-made only while it is filled.
HalfMadeIsFilled ==
    crashes = 0 =>
        \A d \in Directory : tree[d].there /\ ~Readable(d) =>
            worker \in Filling /\ d = DirectoryOf(bit)

LEMMA HalfMadeInit == Init => HalfMadeIsFilled
BY DEF Init, HalfMadeIsFilled, Readable

LEMMA HalfMadeNext == IInv /\ HalfMadeIsFilled /\ [Next]_vars => HalfMadeIsFilled'
<1> SUFFICES ASSUME IInv, HalfMadeIsFilled, [Next]_vars PROVE HalfMadeIsFilled'
  OBVIOUS
<1>1. CASE Crash
  BY <1>1, RepositoryAssumption DEF Crash, IInv, TypeOK, HalfMadeIsFilled
<1>2. ASSUME NEW step \in Filling, NEW next \in Filling, NEW change,
             InDirectory(step, next, change)
      PROVE  HalfMadeIsFilled'
  BY <1>2 DEF InDirectory, HalfMadeIsFilled, Readable, IInv, TypeOK
<1>3. CASE CreateDirectory \/ OpenPayload \/ WritePayload \/ OpenMetadata
  BY <1>2, <1>3 DEF CreateDirectory, OpenPayload, WritePayload, OpenMetadata, Filling, Steps
<1>4. CASE WriteMetadata
  <2>1. tree' = [tree EXCEPT ![DirectoryOf(bit)] = [Now EXCEPT !.metadata = "written"]]
        /\ crashes' = crashes /\ tree \in [Directory -> Entries]
        /\ DirectoryOf(bit) \in Directory
    BY <1>4, Typing, BitDirectory DEF WriteMetadata, InDirectory, IInv, Steps
  <2>2. tree'[DirectoryOf(bit)].metadata = "written"
        /\ \A d \in Directory : d # DirectoryOf(bit) => tree'[d] = tree[d]
    BY <2>1 DEF Now, Entries
  <2> QED
    BY <2>1, <2>2 DEF HalfMadeIsFilled, Readable
<1>5. CASE \/ Start \/ OpenIndex \/ WriteIndex \/ UNCHANGED vars
           \/ \E b \in Bits : StartAdd(b)
  BY <1>5 DEF Start, OpenIndex, WriteIndex, vars, StartAdd, HalfMadeIsFilled, Readable,
     Filling, Steps
<1> QED
  BY <1>1, <1>3, <1>4, <1>5 DEF Next

\* allBits() lists what a sole author added, or throws over a directory that was
\* left half-made; without a death there is none.
THEOREM AddedStaysListed == Spec => []AddedIsListed
<1>1. IInv /\ HalfMadeIsFilled => AddedIsListed
  <2> SUFFICES ASSUME IInv, HalfMadeIsFilled, worker = "idle"
               PROVE  /\ crashes = 0 => ~AllBitsThrows
                      /\ ~AllBitsThrows =>
                             \A b \in added : SoleAuthor(b.name) => Returned(b) \in AllBits
    BY DEF AddedIsListed
  <2>1. crashes = 0 => ~AllBitsThrows
    BY DEF HalfMadeIsFilled, AllBitsThrows, AllDirectories, VersionDirectories, Filling, Steps
  <2>2. ASSUME ~AllBitsThrows, NEW b \in added, SoleAuthor(b.name)
        PROVE  Returned(b) \in AllBits
    BY <2>2, SoleDirectory DEF AllBits, AllDirectories
  <2> QED
    BY <2>1, <2>2
<1>2. Spec => []HalfMadeIsFilled
  BY HalfMadeInit, HalfMadeNext, Invariance, PTL DEF Spec
<1> QED
  BY <1>1, <1>2, Invariance, PTL

\* A name that an index has, in memory or in a file that can be read, has a
\* version whose metadata can be read.
THEOREM IndexedIsReadable == Spec => []IndexedHasVersion
<1>1. IInv => IndexedHasVersion
  <2> SUFFICES ASSUME IInv PROVE IndexedHasVersion
    OBVIOUS
  <2>1. \A n \in Names : index[n] # Nobody =>
            \E d \in VersionDirectories(n) : Readable(d)
    BY DEF IInv, IndexSettled, Settled, VersionDirectories
  <2>2. index_file.format = "1" =>
            \A n \in Names : index_file.entries[n] # Nobody =>
                \E d \in Directory : d.name = n /\ d.user = index_file.entries[n] /\ Readable(d)
    BY DEF IInv, IndexSettled, Settled
  <2> QED
    BY <2>1, <2>2 DEF IndexedHasVersion
<1> QED
  BY <1>1, Invariance, PTL

-------------------------------------------------------------------------------
(* The last version. A finite set of versions has a last one, the disk is     *)
(* finite after any number of additions, and no directory goes away.         *)

LEMMA FiniteHasLast ==
    ASSUME NEW versioned, IsFiniteSet(versioned), versioned # {},
           \A v \in versioned : v.version \in Nat
    PROVE  LastOf(versioned) # {}
<1> SUFFICES ASSUME LastOf(versioned) = {} PROVE FALSE
  OBVIOUS
<1> DEFINE without_last == {part \in FiniteSubsetsOf(versioned) :
                               part # {} /\ LastOf(part) = {}}
<1>1. versioned \in without_last
  BY DEF FiniteSubsetsOf
\* A smallest part without a last version has one once it loses a member, and
\* the later of the two is its last.
<1>2. PICK part \in without_last : \A other \in without_last :
          <<other, part>> \notin StrictSubsetOrdering(versioned)
  <2>1. without_last \subseteq FiniteSubsetsOf(versioned)
    OBVIOUS
  <2> HIDE DEF without_last
  <2> QED
    BY <1>1, <2>1, FS_StrictSubsetOrderingWellFounded, WFMin
<1>3. part \subseteq versioned /\ IsFiniteSet(part) /\ part # {} /\ LastOf(part) = {}
  BY DEF FiniteSubsetsOf
<1>4. PICK v \in part : TRUE
  BY <1>3
<1> DEFINE rest == part \ {v}
<1>5. rest \notin without_last
  BY <1>2, <1>3, <1>4 DEF StrictSubsetOrdering
<1>6. IsFiniteSet(rest)
  BY <1>3, FS_RemoveElement
<1>7. CASE rest = {}
  BY <1>3, <1>4, <1>7 DEF LastOf
<1>8. CASE rest # {}
  <2>1. PICK w \in rest : \A u \in rest : u.version <= w.version
    BY <1>3, <1>5, <1>6, <1>8 DEF LastOf, FiniteSubsetsOf
  <2>2. \A u \in part : u.version \in Nat
    BY <1>3
  <2>3. v \in LastOf(part) \/ w \in LastOf(part)
    BY <1>4, <2>1, <2>2 DEF LastOf
  <2> QED
    BY <1>3, <2>3
<1> QED
  BY <1>7, <1>8

Present == {d \in Directory : tree[d].there}

OnDisk ==
    /\ IsFiniteSet(Present)
    /\ \A b \in added : DirectoryOf(b) \in Present

LEMMA InitOnDisk == Init => OnDisk
<1> SUFFICES ASSUME Init PROVE OnDisk
  OBVIOUS
<1>1. added = Legacy /\ \A b \in Legacy : DirectoryOf(b) \in Directory
  BY RepositoryAssumption, BitDirectory DEF Init
<1>2. Present = {DirectoryOf(b) : b \in Legacy}
  BY <1>1 DEF Init, Present
<1>3. IsFiniteSet({DirectoryOf(b) : b \in Legacy})
  <2> DEFINE directory_of == [b \in Legacy |-> DirectoryOf(b)]
  <2>1. directory_of \in Surjection(Legacy, {DirectoryOf(b) : b \in Legacy})
    BY DEF Surjection
  <2> QED
    BY <2>1, FS_Surjection, RepositoryAssumption
<1> QED
  BY <1>1, <1>2, <1>3 DEF OnDisk

\* A directory comes, one at a time, and none goes.
LEMMA DirectoriesStay ==
    ASSUME IInv, [Next]_vars
    PROVE  /\ Present \subseteq Present'
           /\ Present' \subseteq Present \cup {DirectoryOf(bit)}
           /\ added' = added \/ (worker = "write_index" /\ added' = added \cup {bit})
<1>1. ASSUME NEW step \in Filling, NEW next, NEW change, InDirectory(step, next, change),
             change.there \in BOOLEAN, Now.there => change.there
      PROVE  /\ Present \subseteq Present'
             /\ Present' \subseteq Present \cup {DirectoryOf(bit)}
             /\ added' = added
  <2>1. DirectoryOf(bit) \in Directory /\ tree \in [Directory -> Entries]
    BY <1>1, Typing, BitDirectory DEF IInv, InDirectory, Filling
  <2> QED
    BY <1>1, <2>1 DEF InDirectory, Present, Now
<1>2. worker \in Filling => Now \in Entries
  BY Typing, BitDirectory DEF IInv, Now, Filling
<1>3. CASE CreateDirectory
  BY <1>1, <1>2, <1>3 DEF CreateDirectory, InDirectory, Entries, Filling, Steps
<1>4. CASE OpenPayload
  BY <1>1, <1>2, <1>4 DEF OpenPayload, InDirectory, Entries, Filling, Steps
<1>5. CASE WritePayload
  BY <1>1, <1>2, <1>5 DEF WritePayload, InDirectory, Entries, Filling, Steps
<1>6. CASE OpenMetadata
  BY <1>1, <1>2, <1>6 DEF OpenMetadata, InDirectory, Entries, Filling, Steps
<1>7. CASE WriteMetadata
  BY <1>1, <1>2, <1>7 DEF WriteMetadata, InDirectory, Entries, Filling, Steps
<1>8. CASE tree' = tree /\ added' = added
  BY <1>8 DEF Present
<1>9. CASE WriteIndex
  BY <1>9 DEF WriteIndex, Present
<1> QED
  BY <1>3, <1>4, <1>5, <1>6, <1>7, <1>8, <1>9
     DEF Next, vars, Start, Crash, StartAdd, OpenIndex

LEMMA OnDiskKept == IInv /\ OnDisk /\ [Next]_vars => OnDisk'
<1> SUFFICES ASSUME IInv, OnDisk, [Next]_vars PROVE OnDisk'
  OBVIOUS
<1>1. IsFiniteSet(Present')
  <2>1. IsFiniteSet(Present \cup {DirectoryOf(bit)})
    BY FS_AddElement DEF OnDisk
  <2> QED
    BY <2>1, DirectoriesStay, FS_Subset
<1>2. worker = "write_index" => DirectoryOf(bit) \in Present
  BY Typing, BitDirectory DEF IInv, Progress, Present, Steps
<1> QED
  BY <1>1, <1>2, DirectoriesStay DEF OnDisk

LEMMA OnDiskHolds == Spec => []OnDisk
  BY InitOnDisk, OnDiskKept, Invariance, PTL DEF Spec

\* Asked by name, or searched for, the repository shows a version no older than
\* any that was added where the name leads: the last directory of the name, among
\* any number of versions.
THEOREM LatestNeverOlder == Spec => []LatestIsNoOlder
<1>1. IInv /\ OnDisk => LatestIsNoOlder
  <2> SUFFICES ASSUME IInv, OnDisk, NEW b \in added, NEW names \in SUBSET Names,
                      b.name \in names, b.user = index[b.name]
               PROVE  \E d \in SearchedDirectories(names) :
                          d.name = b.name /\ b.version <= d.version
    BY DEF LatestIsNoOlder
  <2> DEFINE directories == VersionDirectories(b.name)
  <2>1. directories \subseteq Present
    BY DEF VersionDirectories, Present
  <2>2. DirectoryOf(b) \in directories /\ DirectoryOf(b).version = b.version
    BY Typing, BitDirectory DEF IInv, OnDisk, VersionDirectories, Present
  <2>3. IsFiniteSet(directories) /\ \A d \in directories : d.version \in Nat
    BY <2>1, FS_Subset, RepositoryAssumption DEF OnDisk, VersionDirectories, Directory
  <2>4. PICK d \in LastOf(directories) : TRUE
    <3> HIDE DEF directories
    <3> QED
      BY <2>2, <2>3, FiniteHasLast
  <2>5. d.name = b.name /\ b.version <= d.version
    BY <2>2, <2>4 DEF LastOf, VersionDirectories
  <2>6. d \in SearchedDirectories(names)
    BY <2>4 DEF SearchedDirectories, LatestDirectory
  <2> QED
    BY <2>5, <2>6
<1> QED
  BY <1>1, Invariance, OnDiskHolds, PTL

===============================================================================
