\* Four properties, two of them set by name; at most two entries on their way.
CONSTANTS
  Codes = {"iso", "shutter_speed"}
  Values = {12, 16, 88, 91}
  Counts <- MCCounts
  Sizes <- MCSizes
  Blank = "0"
  Readings <- MCReadings
  Offers <- MCOffers
  Wishes <- MCWishes
  Others <- MCOthers
  QueueMax = 2
SPECIFICATION EosSpec
INVARIANTS ShownIsCamera SetReadsBack OffersKnown
PROPERTY AvailSpec
