------------------------ MODULE NativeLibraryLoader ------------------------
(***************************************************************************)
(* load() of NativeLibraryLoader.java: by name from java.library.path, or  *)
(* else from a resource, which is unpacked to a temporary file, loaded     *)
(* from there, and deleted.  Anything outside the program may fail at any  *)
(* step.  A Throwable is the set of failures it tells of, through its      *)
(* message, its cause and its suppressed ones.  The patching of a shaded   *)
(* library's id on OS X, which cannot fail the load, is left out.          *)
(***************************************************************************)
EXTENDS Naturals, Sequences, SequencesExt

CONSTANTS
    Content,        \* what a resource may hold
    Library,        \* the contents that are a library this JVM can load
    MaxResources    \* bound: resources of one name on the class path

ASSUME LoaderAssumption == Library \subseteq Content /\ MaxResources \in Nat

Unreadable == "unreadable"      \* a resource whose stream fails
Resources == BoundedSeq(Content \cup {Unreadable}, MaxResources)

VARIABLES
    osx,            \* PlatformUtils.isOsx()
    named,          \* the resources of the mapped library name
    otherNamed,     \* on OS X, those of the other suffix
    stage,          \* where load() is
    url,            \* the resource it chose, or none yet
    tmpFile,        \* what the temporary file holds, if it exists
    onExit,         \* tmpFile.deleteOnExit() was called
    suppressed,     \* the failures collected so far
    thrown,         \* the failures the exception in flight tells of
    loaded          \* what the JVM loaded

loader == <<osx, named, otherNamed, stage, url, tmpFile, onExit, suppressed,
          thrown, loaded>>
world == <<osx, named, otherNamed>>

NoUrl == <<>>
NoFile == [there |-> FALSE]
File(c, whole) == [there |-> TRUE, content |-> c, whole |-> whole]
Nothing == [from |-> "nowhere"]
ByName == [from |-> "library path"]
FromFile(c) == [from |-> "file", content |-> c]
-----------------------------------------------------------------------------
LoaderInit ==
    /\ osx \in BOOLEAN
    /\ named \in Resources /\ otherNamed \in Resources
    /\ stage = "name"
    /\ url = NoUrl
    /\ tmpFile = NoFile
    /\ onExit = FALSE
    /\ suppressed = {} /\ thrown = {}
    /\ loaded = Nothing

LoadByName ==
    /\ stage = "name"
    /\ \/ /\ stage' = "returned"
          /\ loaded' = ByName
          /\ UNCHANGED suppressed
       \/ /\ stage' = "find"
          /\ suppressed' = {"by name"}
          /\ UNCHANGED loaded
    /\ UNCHANGED <<world, url, tmpFile, onExit, thrown>>

\* Broken variant: the first resource of the name is taken.
Agree_First(rs) == TRUE

(* getResource accepts resources of one name when their digests are equal; *)
(* digest() of one that cannot be read is null, which is equal to none.    *)
Agree(rs) == \A i \in DOMAIN rs : rs[i] = rs[1] /\ rs[i] # Unreadable

Unambiguous(rs) == Len(rs) > 1 => Agree(rs)

(* The first search is outside the try block: what getResource throws      *)
(* leaves load() as it is, without the failures collected so far.          *)
FindResource ==
    /\ stage = "find"
    /\ \/ /\ Unambiguous(named)
          /\ url' = IF named = <<>> THEN NoUrl ELSE <<named[1]>>
          /\ stage' = IF named # <<>> THEN "create"
                   ELSE IF osx THEN "find other" ELSE "not found"
          /\ UNCHANGED thrown
       \/ /\ stage' = "threw"
          /\ thrown' = IF Unambiguous(named) THEN {"class path"}
                       ELSE {"ambiguous"}
          /\ UNCHANGED url
    /\ UNCHANGED <<world, tmpFile, onExit, suppressed, loaded>>

FindOtherResource ==
    /\ stage = "find other"
    /\ \/ /\ Unambiguous(otherNamed)
          /\ url' = IF otherNamed = <<>> THEN NoUrl ELSE <<otherNamed[1]>>
          /\ stage' = IF otherNamed # <<>> THEN "create" ELSE "not found"
          /\ UNCHANGED thrown
       \/ /\ stage' = "catch"
          /\ thrown' = IF Unambiguous(otherNamed) THEN {"class path"}
                       ELSE {"ambiguous"}
          /\ UNCHANGED url
    /\ UNCHANGED <<world, tmpFile, onExit, suppressed, loaded>>

\* Broken variant: the list is cleared and not handed on.
NotFound_Cleared ==
    /\ stage = "not found"
    /\ thrown' = {"not found"}
    /\ suppressed' = {}
    /\ stage' = "catch"
    /\ UNCHANGED <<world, url, tmpFile, onExit, loaded>>

(* The FileNotFoundException takes the collected failures along. *)
NotFound ==
    /\ stage = "not found"
    /\ thrown' = suppressed \cup {"not found"}
    /\ suppressed' = {}
    /\ stage' = "catch"
    /\ UNCHANGED <<world, url, tmpFile, onExit, loaded>>

CreateTempFile ==
    /\ stage = "create"
    /\ \/ /\ tmpFile' = File(url[1], FALSE)
          /\ stage' = "unpack"
          /\ UNCHANGED thrown
       \/ /\ thrown' = {"temporary file"}
          /\ stage' = "catch"
          /\ UNCHANGED tmpFile
    /\ UNCHANGED <<world, url, onExit, suppressed, loaded>>

\* Broken variant: a stream that fails is taken to be at its end.
Unpack_FailureIsEnd ==
    /\ stage = "unpack"
    /\ tmpFile' = File(url[1], TRUE)
    /\ stage' = "load"
    /\ UNCHANGED <<world, url, onExit, suppressed, thrown, loaded>>

(* Opening, reading, writing or closing may fail, after any part. *)
Unpack ==
    /\ stage = "unpack"
    /\ \/ /\ url[1] # Unreadable
          /\ tmpFile' = File(url[1], TRUE)
          /\ stage' = "load"
          /\ UNCHANGED thrown
       \/ /\ \E whole \in IF url[1] = Unreadable THEN {FALSE} ELSE BOOLEAN :
                tmpFile' = File(url[1], whole)
          /\ thrown' = {"unpack"}
          /\ stage' = "catch"
    /\ UNCHANGED <<world, url, onExit, suppressed, loaded>>

(* System.load: an UnsatisfiedLinkError has a handler of its own. *)
LoadFile ==
    /\ stage = "load"
    /\ \/ /\ tmpFile.whole /\ tmpFile.content \in Library
          /\ loaded' = FromFile(tmpFile.content)
          /\ stage' = "clean up"
          /\ UNCHANGED thrown
       \/ /\ thrown' = {"load"}
          /\ stage' \in {"unsatisfied", "catch"}
          /\ UNCHANGED loaded
    /\ UNCHANGED <<world, url, tmpFile, onExit, suppressed>>
-----------------------------------------------------------------------------
(* The handler of UnsatisfiedLinkError looks for a volume that forbids     *)
(* execution, collects what it finds or what stopped it from looking, and  *)
(* throws the error again with all that was collected.                     *)
Unsatisfied ==
    /\ stage = "unsatisfied"
    /\ \E found \in {{}, {"noexec"}, {"detection"}} :
          thrown' = thrown \cup suppressed \cup found
    /\ suppressed' = {}
    /\ stage' = "clean up"
    /\ UNCHANGED <<world, url, tmpFile, onExit, loaded>>

(* Every other exception becomes the cause of a new error. *)
Catch ==
    /\ stage = "catch"
    /\ thrown' = thrown \cup suppressed \cup {"could not load"}
    /\ suppressed' = {}
    /\ stage' = "clean up"
    /\ UNCHANGED <<world, url, tmpFile, onExit, loaded>>

\* Broken variant: a file that cannot be deleted is forgotten.
CleanUp_Once ==
    /\ stage = "clean up"
    /\ tmpFile' \in {tmpFile, NoFile}
    /\ stage' = IF thrown = {} THEN "returned" ELSE "threw"
    /\ UNCHANGED <<world, url, onExit, suppressed, thrown, loaded>>

(* The finally block; delete() may fail, as it does on a loaded library on *)
(* some systems.                                                           *)
CleanUp ==
    /\ stage = "clean up"
    /\ \/ tmpFile' = NoFile /\ UNCHANGED onExit
       \/ tmpFile.there /\ onExit' = TRUE /\ UNCHANGED tmpFile
    /\ stage' = IF thrown = {} THEN "returned" ELSE "threw"
    /\ UNCHANGED <<world, url, suppressed, thrown, loaded>>

LoaderNext ==
    \/ LoadByName \/ FindResource \/ FindOtherResource \/ NotFound
    \/ CreateTempFile \/ Unpack \/ LoadFile
    \/ Unsatisfied \/ Catch \/ CleanUp

LoaderSpec == LoaderInit /\ [][LoaderNext]_loader
-----------------------------------------------------------------------------
Failure == {"by name", "class path", "ambiguous", "not found",
            "temporary file", "unpack", "load", "noexec", "detection",
            "could not load"}
Urls == {NoUrl} \cup {<<c>> : c \in Content \cup {Unreadable}}
Files == {NoFile} \cup {File(c, TRUE) : c \in Content}
                 \cup {File(c, FALSE) : c \in Content \cup {Unreadable}}
Loads == {Nothing, ByName} \cup {FromFile(c) : c \in Content}

(* Only a resource that can be read to its end makes a whole file, and a   *)
(* file is unpacked from the resource that was chosen.                     *)
LoaderTypeOK ==
    /\ osx \in BOOLEAN /\ onExit \in BOOLEAN
    /\ named \in Resources /\ otherNamed \in Resources
    /\ stage \in {"name", "find", "find other", "not found", "create", "unpack",
               "load", "unsatisfied", "catch", "clean up", "returned", "threw"}
    /\ url \in Urls
    /\ tmpFile \in Files
    /\ tmpFile.there => url = <<tmpFile.content>>
    /\ suppressed \subseteq Failure /\ thrown \subseteq Failure
    /\ loaded \in Loads

Ended == stage \in {"returned", "threw"}

(* However load() ends, a temporary file it leaves is one the JVM deletes  *)
(* when it exits: the comment of the finally block.                        *)
NoFileLeft == Ended /\ tmpFile.there => onExit

(* load() returns exactly when a library was loaded, and one unpacked from *)
(* a resource is whole and the one all resources of its name agree on.     *)
LoadsTheLibrary ==
    /\ stage = "returned" => loaded # Nothing
    /\ stage = "threw" => loaded = Nothing
    /\ loaded.from = "file" =>
          LET rs == IF named = <<>> THEN otherNamed ELSE named
          IN  /\ loaded.content \in Library
              /\ \A i \in DOMAIN rs : rs[i] = loaded.content

(* An error tells why the library was not found by name, whatever failed   *)
(* after that; only a search of the class path that itself fails, the      *)
(* first one, does not.                                                    *)
TellsEveryFailure ==
    stage = "threw" =>
        \/ "by name" \in thrown
        \/ url = NoUrl /\ thrown \in {{"class path"}, {"ambiguous"}}
=============================================================================
