\* The text of ptp_eos_events_json.
CONSTANTS
  Codes = {"iso", "shutter_speed"}
  Values = {12, 16, 88, 91}
  Counts <- MCCounts
  Sizes <- MCSizes
  Blank = "0"
  Readings <- MCReadings
  Offers <- MCOffers
  Wishes <- MCWishes
  Others <- AllOthers
  QueueMax = 2
SPECIFICATION EosSpec
PROPERTY EventsJsonValid
