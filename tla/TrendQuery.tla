------------------------------ MODULE TrendQuery ------------------------------
(***************************************************************************)
(* The query for trend records: trend_get of user/user_cgi.c, and          *)
(* DAT_nGetTrendLength and DAT_pGetTrends of user/user_data.c.  A record   *)
(* goes by its index, counted from the first one that was ever logged.     *)
(*                                                                         *)
(* The times of the first and of the last record are read at the start of  *)
(* the region; the records are written (Parameters, PlaceOf) as far behind *)
(* it as the region is from the start of the flash, so that what is read   *)
(* there has never been written.                                           *)
(***************************************************************************)
EXTENDS Integers

CONSTANTS
    WORD,        \* unsigned numbers wrap there: 2^32
    PER,         \* TREND_RECORD_NUM_PER_SECTOR
    SECTORS,     \* MAX_TREND_RECORD_SECTOR
    INTERVAL,    \* TREND_RECORD_INTERVAL, in seconds
    QUERY,       \* MAX_TREND_NUM_PER_QUERY
    BYTE         \* an uint8_t wraps there: 256

MAX == PER * SECTORS          \* MAX_TREND_RECORD_NUM
QUERY_LEN == INTERVAL * QUERY \* MAX_TREND_QUERY_LEN

Blank == WORD - 1    \* the time of a record that was never written
Error == [answer |-> "error"]

EarliestTime == Blank
LastTime     == Blank

(* The comment says that this is the number of records; until the region   *)
(* is full it is none.                                                     *)
DAT_nGetTrendLength(num) ==
    CASE num = 0               -> -1
      [] num \in 1..MAX        -> 0
      [] num > MAX             -> (MAX - PER) + (num % MAX)

Held(num, index) == index < num /\ (num > MAX => index >= num - MAX)

(* getSpecifiedTrendRecordByIndex leaves what it refuses unread.           *)
getSpecifiedTrendRecordByIndex(num, index) == IF Held(num, index) THEN index ELSE -1

EndIndex(num, end) ==
    IF end = LastTime THEN num - 1 ELSE num - 1 - (LastTime - end) \div INTERVAL

StartIndex(num, start, end) ==
    LET select == ((end - start) \div INTERVAL + 1) % BYTE
        from   == (EndIndex(num, end) + 1 - (IF select > QUERY THEN QUERY ELSE select)) % WORD
        first  == (num - DAT_nGetTrendLength(num)) % WORD
    IN  IF from < first THEN first ELSE from

DAT_pGetTrends(num, unStartTime, unEndTime) ==
    LET end   == IF unEndTime > LastTime THEN LastTime ELSE unEndTime
        start == IF unStartTime < EarliestTime THEN EarliestTime ELSE unStartTime
        from  == StartIndex(num, start, end)
        n     == (EndIndex(num, end) - from + 1) % BYTE
    IN  IF \/ unEndTime <= unStartTime \/ DAT_nGetTrendLength(num) < 0
           \/ unStartTime > LastTime \/ unEndTime < EarliestTime
           \/ end # LastTime /\ (LastTime - end) \div INTERVAL >= num
        THEN <<>>
        ELSE [i \in 1..n |-> getSpecifiedTrendRecordByIndex(num, (from + i - 1) % WORD)]

trend_get(num, unStartTime, unEndTime) ==
    LET start   == IF unEndTime - unStartTime > QUERY_LEN THEN unEndTime - QUERY_LEN ELSE unStartTime
        records == DAT_pGetTrends(num, start, unEndTime)
    IN  CASE unStartTime = 0 /\ unEndTime = 0 ->
               IF DAT_nGetTrendLength(num) < 0 THEN Error
               ELSE [answer |-> "length", from |-> EarliestTime, to |-> LastTime]
          [] unEndTime <= unStartTime /\ unStartTime > 0 -> Error
          [] unEndTime > unStartTime ->
               IF records = <<>> THEN Error ELSE [answer |-> "trend", records |-> records]
=============================================================================
