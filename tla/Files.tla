------------------------------- MODULE Files --------------------------------
(***************************************************************************)
(* Files of src/foundation/io: the ZIP archives of archive.cpp, read out   *)
(* of mapped memory, and the search path of vfs.cpp, which moves the       *)
(* directory that had the last file to the front of its list.              *)
(* Memory is a function from the offsets at which something begins to what *)
(* it is; lengths are small numbers, a header is as long as its constant.  *)
(* A path is a sequence of letters and slashes.                            *)
(***************************************************************************)
EXTENDS Integers, Sequences, FiniteSets, SequencesExt, FiniteSetsExt

CONSTANTS Paths,        \* what is asked for
          Mounts,       \* <<external, internal>> directories that are inserted
          Disk,         \* the files there are, by the slashes they need
          MaxMounts     \* a bound on the list

VARIABLES list,         \* vfs::list, the front first
          asked         \* the last request, and the file that it found or Lost

filesVars == <<list, asked>>
Lost == <<"lost">>

-----------------------------------------------------------------------------
(* Archives *)
FileHeader == 3         \* sizes
EntryHeader == 4
DirectoryHeader == 2

None == -1              \* the end of the entries
NoArchive == -2         \* an exception of the archive
Undefined == -3         \* memory that is not the archive's has been read

IdAt(m, o) == IF o \in DOMAIN m.at THEN m.at[o].id ELSE "other"

(* Data is <<form, content>>, a checksum the content that it was made of.  *)
Refused == <<"error">>
CheckCrc(content, crc) == IF content = crc THEN <<"data", content>> ELSE Refused

(* archive_file: stored data as it is, deflated data inflated. *)
Stored(file) == IF file.data[1] = "plain" THEN CheckCrc(file.data[2], file.crc) ELSE Refused
Inflated(file) ==
    IF file.data[1] = "deflated" THEN CheckCrc(file.data[2], file.crc) ELSE Refused

(* archive_iterator: from one entry to the next, until there is none. *)
Increment(m, e) ==
    LET entry == m.at[e]
        after == e + EntryHeader + Len(entry.name) + entry.extra + entry.comment
    IN IF IdAt(m, after) = "entry" THEN after ELSE None
Equal(i, j) == i = j
Dereference(m, e) == m.at[e].name

(* The scan for the directory, from the end backwards.  It stops at the    *)
(* last one, or a byte before the memory, where what it reads is not its.  *)
Scan(m) == Max({-1} \union {o \in 0 .. m.size - DirectoryHeader : IdAt(m, o) = "directory"})

(* archive::archive: the first entry, or that there is an error, or that   *)
(* the scan has left the memory and what follows is not defined.           *)
Central(m) ==
    LET o == Scan(m) IN
    CASE IdAt(m, 0) # "file" -> NoArchive
      [] IdAt(m, 0) = "file" /\ o = -1 -> Undefined
      [] IdAt(m, 0) = "file" /\ o >= 0 ->
             IF o = 0 \/ m.at[o].parts # 1 \/ IdAt(m, m.at[o].offset) # "entry"
             THEN NoArchive ELSE m.at[o].offset

(* archive::open of an entry, which asks its file header for the rest.     *)
Open(m, e) ==
    LET o == m.at[e].offset IN
    IF IdAt(m, o) # "file" \/ m.at[o].name # Dereference(m, e) THEN Refused
    ELSE IF m.at[o].method = "store" THEN Stored(m.at[o]) ELSE Inflated(m.at[o])

Entries(m) ==
    LET From[e \in None .. m.size] ==
            IF Equal(e, None) THEN <<>> ELSE <<e>> \o From[Increment(m, e)]
    IN From[Central(m)]

OpenPath(m, name) ==
    LET named == SelectSeq(Entries(m), LAMBDA e : Dereference(m, e) = name)
    IN IF named = <<>> THEN Refused ELSE Open(m, named[1])

-----------------------------------------------------------------------------
(* vfs *)
Crimp(path) == LET letters == {i \in DOMAIN path : path[i] # "/"} IN
               IF letters = {} THEN <<>> ELSE SubSeq(path, Min(letters), Max(letters))
External(path) == SubSeq(path, 1, Max({0} \union {i \in DOMAIN path : path[i] # "/"}))

(* access(): a file is there however many slashes lead to it. *)
Exists(path) ==
    SelectSeq([i \in DOMAIN path |-> IF i > 1 /\ path[i] = "/" /\ path[i - 1] = "/"
                                     THEN "none" ELSE path[i]],
              LAMBDA c : c # "none") \in Disk

FilesInit == list = <<>> /\ asked = <<Lost, Lost>>

Insert(external, internal) ==
    /\ Len(list) < MaxMounts
    /\ list' = <<<<External(external), Crimp(internal)>>>> \o list
    /\ asked' = <<Lost, Lost>>

(* The path loses the internal directory of each entry that it goes past,  *)
(* and stays without it for the entries behind.                            *)
Strip(path, entry) ==
    IF entry[2] # <<>> /\ IsPrefix(entry[2], path)
    THEN SubSeq(path, Len(entry[2]) + 1, Len(path)) ELSE path
StrippedTo(path, n) ==
    LET After[i \in 0 .. n] == IF i = 0 THEN path ELSE Strip(After[i - 1], list[i])
    IN After[n]
Full(path, n) == list[n][1] \o <<"/">> \o StrippedTo(Crimp(path), n)
Hits(path) == {n \in DOMAIN list : Exists(Full(path, n))}

(* operator [] and lru. *)
Lookup(path) ==
    /\ asked' = <<path, IF Hits(path) = {} THEN Lost ELSE Full(path, Min(Hits(path)))>>
    /\ list' = IF Hits(path) = {} THEN list
               ELSE <<list[Min(Hits(path))]>> \o RemoveAt(list, Min(Hits(path)))

FilesNext == \/ \E mount \in Mounts : Insert(mount[1], mount[2])
             \/ \E path \in Paths : Lookup(path)

-----------------------------------------------------------------------------
(* An archive of files as they are written one after the other, each with  *)
(* its directory entry, lists their names in their order, and opens each   *)
(* of them to its data; one whose data, checksum or name does not agree is *)
(* refused, whatever comments and extra fields there are between.          *)
ArchiveRight(m, names, opens) ==
    Central(m) \notin {NoArchive, Undefined} =>
        /\ [i \in DOMAIN Entries(m) |-> Dereference(m, Entries(m)[i])] = names
        /\ \A i \in DOMAIN names :
               /\ Open(m, Entries(m)[i]) = opens[i]
               /\ (\A j \in 1 .. i - 1 : names[j] # names[i]) =>
                      OpenPath(m, names[i]) = opens[i]

(* A file that was found is found again where it was, as long as nothing   *)
(* is inserted, although its entry has moved; for a path that no internal  *)
(* directory begins, since it loses that for all the entries behind.       *)
PathsFound ==
    /\ asked[2] # Lost
    /\ \A n \in DOMAIN list : Strip(Crimp(asked[1]), list[n]) = Crimp(asked[1])
    => Hits(asked[1]) # {} /\ Full(asked[1], Min(Hits(asked[1]))) = asked[2]
=============================================================================
