SPECIFICATION Spec
CONSTANTS
    Guests = {"sp1", "zisk"}
    Elfs = {"elf", "other"}
    RETENTION_DAYS = 1
    MaxDays = 3
    MaxReruns = 2
PROPERTIES
    PublishesChecked
    RunSettles
