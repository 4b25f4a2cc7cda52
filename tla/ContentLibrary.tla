--------------------------- MODULE ContentLibrary ---------------------------
(***************************************************************************)
(* The folders of a tenant: the content library page, which makes and      *)
(* removes them, the dialog in which the generation wizard picks one, and  *)
(* what the server and its tables do with the calls.  Other users change   *)
(* the same folders meanwhile.  A tab shows the page or the wizard.        *)
(***************************************************************************)
EXTENDS Naturals, Sequences, FiniteSets

CONSTANTS
  MaxFolderDepth,  \* MAX_FOLDER_DEPTH of the page and of the dialog
  FiledCourses,    \* the courses
  MaxFolders       \* bound: folders ever made, the first three included

ASSUME LibraryAssumption ==
  MaxFolderDepth \in Nat \ {0} /\ MaxFolders \in Nat /\ MaxFolders >= 3

VARIABLES
  parents,     \* parents[f]: the folder that f was made in, 0 for a root
  folders,     \* the folders there are; an identity is never used twice
  filed,       \* the folder of each course, 0 for none
  view,        \* what the tab shows: "library" or "dialog"
  tree,        \* the folders as the tab last read them
  creatingIn,  \* creatingFolderIn: the folder with an open name field, or 0
  creation,    \* the call to create: its stage, and the folder it is for
  toDelete,    \* folderToDelete, or 0
  deletion,    \* the call to delete: how far the server is, and its folder
  dialog,      \* the dialog: "closed", "loading" or "open"
  selection    \* the folder chosen in the dialog, or 0

libraryVars == <<parents, folders, filed, view, tree, creatingIn, creation,
                 toDelete, deletion, dialog, selection>>

NoCall == [stage |-> "none", for |-> 0]

(* A root with a folder in a folder; courses are not filed yet.            *)
LibraryInit ==
  /\ parents = <<0, 1, 2>> /\ folders = 1..3
  /\ filed = [c \in FiledCourses |-> 0]
  /\ view \in {"library", "dialog"}
  /\ tree = IF view = "library" THEN folders ELSE {}
  /\ creatingIn = 0 /\ creation = NoCall
  /\ toDelete = 0 /\ deletion = NoCall
  /\ dialog = "closed" /\ selection = 0

(* The level at which a folder is rendered, from 1: a folder is never moved. *)
Level[f \in 0..MaxFolders] == IF f = 0 THEN 0 ELSE 1 + Level[parents[f]]

InFolder[f \in 0..MaxFolders, g \in 0..MaxFolders] ==
  f = g \/ (f # 0 /\ InFolder[parents[f], g])

TreeShown == (view = "library" /\ toDelete = 0) \/ dialog = "open"

-----------------------------------------------------------------------------
(* The tables.                                                             *)

FolderMadeIn(f) ==
  /\ f \in folders /\ Len(parents) < MaxFolders
  /\ parents' = Append(parents, f)
  /\ folders' = folders \cup {Len(parents) + 1}

(* Mutant: only courses of the folder itself keep it from being removed.   *)
RemoveWithSubfolders(f) ==
  /\ \A c \in FiledCourses : filed[c] # f
  /\ folders' = folders \ {g \in folders : InFolder[g, f]}

(* Remove a folder and, the key being declared ON DELETE CASCADE, all in   *)
(* it.  The key of courses.folder_id has no such clause.                   *)
Remove(f) ==
  /\ \A c \in FiledCourses : filed[c] # 0 => ~ InFolder[filed[c], f]
  /\ folders' = folders \ {g \in folders : InFolder[g, f]}

-----------------------------------------------------------------------------
(* Creating a folder, on the page and in the dialog.                       *)

CanCreateSubfolder(f) == Level[f] < MaxFolderDepth

(* The plus of a folder is there while another creation is under way too.  *)
StartCreateFolder ==
  /\ TreeShown
  /\ \E f \in tree : CanCreateSubfolder(f) /\ creatingIn' = f
  /\ UNCHANGED <<parents, folders, filed, view, tree, creation, toDelete,
                 deletion, dialog, selection>>

CancelCreateFolder ==
  /\ TreeShown /\ creatingIn # 0 /\ creation = NoCall
  /\ creatingIn' = 0
  /\ UNCHANGED <<parents, folders, filed, view, tree, creation, toDelete,
                 deletion, dialog, selection>>

ConfirmCreateFolder ==
  /\ TreeShown /\ creatingIn # 0 /\ creation = NoCall
  /\ creation' = [stage |-> "asked", for |-> creatingIn]
  /\ UNCHANGED <<parents, folders, filed, view, tree, creatingIn, toDelete,
                 deletion, dialog, selection>>

(* The server makes the folder, and says so or is not heard.               *)
FolderCreated ==
  /\ creation.stage = "asked" /\ FolderMadeIn(creation.for)
  /\ \/ creation' = [creation EXCEPT !.stage = "made"]
        /\ dialog' = IF dialog = "open" THEN "loading" ELSE dialog
     \/ creation' = NoCall /\ UNCHANGED dialog
  /\ UNCHANGED <<filed, view, tree, creatingIn, toDelete, deletion, selection>>

FolderNotCreated ==
  /\ creation.stage = "asked"
  /\ creation' = NoCall
  /\ UNCHANGED <<parents, folders, filed, view, tree, creatingIn, toDelete,
                 deletion, dialog, selection>>

(* What closes is the name field that is open by now.  Neither the page    *)
(* nor the dialog takes a failed refetch for a failure.                    *)
CreationShown ==
  /\ creation.stage = "made"
  /\ tree' \in {tree, folders}
  /\ creatingIn' = 0 /\ creation' = NoCall
  /\ dialog' = IF dialog = "loading" THEN "open" ELSE dialog
  /\ UNCHANGED <<parents, folders, filed, view, toDelete, deletion, selection>>

-----------------------------------------------------------------------------
(* The page: deleting.  Which folder is selected there, and the list of    *)
(* courses it filters, change nothing else and are left out.               *)

CanDeleteFolder(f) == parents[f] # 0

(* The menu of a folder; or the dialog that asks is closed, which a click  *)
(* beside it does while the deletion is under way too.                     *)
AskDeleteFolder ==
  /\ view = "library"
  /\ \/ toDelete = 0 /\ \E f \in tree : CanDeleteFolder(f) /\ toDelete' = f
     \/ toDelete # 0 /\ toDelete' = 0
  /\ UNCHANGED <<parents, folders, filed, view, tree, creatingIn, creation,
                 deletion, dialog, selection>>

ConfirmDeleteFolder ==
  /\ toDelete # 0 /\ deletion = NoCall
  /\ deletion' = [stage |-> "counting", for |-> toDelete]
  /\ UNCHANGED <<parents, folders, filed, view, tree, creatingIn, creation,
                 toDelete, dialog, selection>>

DeletionMoves(from, to) ==
  /\ deletion.stage = from
  /\ deletion' = IF to = "none" THEN NoCall ELSE [deletion EXCEPT !.stage = to]
  /\ UNCHANGED <<parents, filed, view, tree, creatingIn, creation, toDelete,
                 dialog, selection>>

(* DeleteFolder counts the courses, lists the subfolders and removes the   *)
(* folder in three transactions.                                           *)
CoursesCounted ==
  /\ IF \E c \in FiledCourses : filed[c] = deletion.for
       THEN DeletionMoves("counting", "none")
       ELSE DeletionMoves("counting", "listing")
  /\ UNCHANGED folders

SubfoldersListed ==
  /\ IF \E f \in folders : parents[f] = deletion.for
       THEN DeletionMoves("listing", "none")
       ELSE DeletionMoves("listing", "removing")
  /\ UNCHANGED folders

(* The repository reports a folder that is already gone as an error.       *)
FolderRemoved ==
  /\ deletion.for \in folders /\ Remove(deletion.for)
  /\ DeletionMoves("removing", "removed")

(* Refused, unreachable, or done and not heard of: the page says it failed. *)
DeletionFails ==
  /\ UNCHANGED folders
  /\ \E s \in {"counting", "listing", "removing", "removed"} : DeletionMoves(s, "none")

(* What closes is the dialog that is open by now.                          *)
DeletionShown ==
  /\ deletion.stage = "removed"
  /\ tree' \in {tree, folders}
  /\ toDelete' = 0 /\ deletion' = NoCall
  /\ UNCHANGED <<parents, folders, filed, view, creatingIn, creation, dialog,
                 selection>>

TreeRefetched ==
  /\ view = "library" /\ tree' = folders
  /\ UNCHANGED <<parents, folders, filed, view, creatingIn, creation, toDelete,
                 deletion, dialog, selection>>

-----------------------------------------------------------------------------
(* The dialog, which stays mounted while it is closed.                     *)

OpenFolderDialog ==
  /\ view = "dialog" /\ dialog = "closed"
  /\ dialog' = "loading"
  /\ UNCHANGED <<parents, folders, filed, view, tree, creatingIn, creation,
                 toDelete, deletion, selection>>

(* A load that fails shows what an earlier one has read.                   *)
FoldersLoaded ==
  /\ dialog = "loading" /\ creation.stage # "made"
  /\ tree' \in {tree, folders}
  /\ dialog' = "open"
  /\ UNCHANGED <<parents, folders, filed, view, creatingIn, creation, toDelete,
                 deletion, selection>>

(* A click on a root that has subfolders only unfolds it.                  *)
ChooseFolder ==
  /\ dialog = "open"
  /\ \E f \in tree :
       /\ parents[f] # 0 \/ \A g \in tree : parents[g] # f
       /\ selection' = f
  /\ dialog' = "closed"
  /\ UNCHANGED <<parents, folders, filed, view, tree, creatingIn, creation,
                 toDelete, deletion>>

CloseFolderDialog ==
  /\ dialog # "closed" /\ dialog' = "closed"
  /\ UNCHANGED <<parents, folders, filed, view, tree, creatingIn, creation,
                 toDelete, deletion, selection>>

(* The wizard creates the course in the folder that was chosen, if it is   *)
(* still there.                                                            *)
CourseFiledAsChosen ==
  /\ view = "dialog" /\ dialog = "closed" /\ selection \in folders
  /\ \E c \in FiledCourses : filed[c] = 0 /\ filed' = [filed EXCEPT ![c] = selection]
  /\ UNCHANGED <<parents, folders, view, tree, creatingIn, creation, toDelete,
                 deletion, dialog, selection>>

-----------------------------------------------------------------------------
(* Other users, with the same page and dialog.                             *)

OthersFile ==
  /\ \E c \in FiledCourses, f \in folders \cup {0} : filed' = [filed EXCEPT ![c] = f]
  /\ UNCHANGED <<parents, folders, view, tree, creatingIn, creation, toDelete,
                 deletion, dialog, selection>>

OthersCreate ==
  /\ \E f \in folders : CanCreateSubfolder(f) /\ FolderMadeIn(f)
  /\ UNCHANGED <<filed, view, tree, creatingIn, creation, toDelete, deletion,
                 dialog, selection>>

OthersRemove ==
  /\ \E f \in folders :
       /\ CanDeleteFolder(f) /\ \A g \in folders : parents[g] # f
       /\ (\A c \in FiledCourses : filed[c] # f) /\ Remove(f)
  /\ UNCHANGED <<parents, filed, view, tree, creatingIn, creation, toDelete,
                 deletion, dialog, selection>>

LibraryNext ==
  \/ StartCreateFolder \/ CancelCreateFolder \/ ConfirmCreateFolder
  \/ FolderCreated \/ FolderNotCreated \/ CreationShown
  \/ AskDeleteFolder \/ ConfirmDeleteFolder
  \/ CoursesCounted \/ SubfoldersListed \/ FolderRemoved
  \/ DeletionFails \/ DeletionShown \/ TreeRefetched
  \/ OpenFolderDialog \/ FoldersLoaded \/ ChooseFolder \/ CloseFolderDialog
  \/ CourseFiledAsChosen \/ OthersFile \/ OthersCreate \/ OthersRemove

LibrarySpec == LibraryInit /\ [][LibraryNext]_libraryVars

-----------------------------------------------------------------------------
CallStages == {"none", "asked", "made", "counting", "listing", "removing", "removed"}

(* Type invariant.                                                         *)
LibraryTypeOK ==
  /\ parents \in Seq(0..MaxFolders) /\ Len(parents) <= MaxFolders
  /\ folders \subseteq DOMAIN parents /\ tree \subseteq DOMAIN parents
  /\ filed \in [FiledCourses -> 0..MaxFolders]
  /\ view \in {"library", "dialog"} /\ dialog \in {"closed", "loading", "open"}
  /\ {creatingIn, toDelete, selection} \subseteq 0..Len(parents)
  /\ creation \in [stage : CallStages, for : 0..Len(parents)]
  /\ deletion \in [stage : CallStages, for : 0..Len(parents)]

(* A course is filed in a folder that exists, or in none.  The server      *)
(* counts a folder's courses before it removes it, in another transaction: *)
(* a course filed in between, or into a subfolder made in between that the *)
(* removal takes along, must not be left without its folder.               *)
CoursesKeepFolders == \A c \in FiledCourses : filed[c] \in folders \cup {0}

=============================================================================
