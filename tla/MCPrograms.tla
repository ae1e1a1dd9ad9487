----------------------------- MODULE MCPrograms -----------------------------
(* Every program, with queues that fill up and counters that wrap. *)
EXTENDS Programs

MCChosen == {"kmsq", "fifo", "poll", "sem", "event", "work_queue", "kmutex", "spinlock", "atomic",
             "rs485", "adv_conn", "scan_conn", "gatt_server", "ble", "lcd_ui",
             "lvgl", "sys_monitor"}
=============================================================================
