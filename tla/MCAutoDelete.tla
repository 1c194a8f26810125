---------------------------- MODULE MCAutoDelete ----------------------------
(***************************************************************************)
(* Instances of AutoDelete: files are numbered, odd files are in folder 1  *)
(* and even ones in folder 2.                                              *)
(***************************************************************************)
EXTENDS AutoDelete

MCFolderOf == [f \in Files |-> IF f % 2 = 1 THEN 1 ELSE 2]

(* All in one folder.                                                      *)
MCFolderOne == [f \in Files |-> 1]

MCFileSize == [f \in Files |-> 1]

(* file_max_num of two folders.                                            *)
MCLimitTwo == [i \in Folders |-> IF i = 1 THEN 2 ELSE 0]

MCLimitZero == [i \in Folders |-> 0]

(* video_quota of two folders, in percent: together less than 100.         *)
MCQuota == [i \in Folders |-> 30]
=============================================================================
