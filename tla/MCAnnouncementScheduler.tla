----------------------- MODULE MCAnnouncementScheduler -----------------------
(* Small instances of AnnouncementScheduler for TLC. *)
EXTENDS AnnouncementScheduler, TLC
=============================================================================
